---- MODULE Spec2Model ----
(***************************************************************************)
(* A model of the ingestion-and-serving pipeline of the UFM telemetry      *)
(* service: the polling generator client, the hybrid store (cache, flush   *)
(* queue, flush worker, retrying writer), the telemetry service in front   *)
(* of it, and the repository behind it.                                    *)
(*                                                                         *)
(* Time is not measured.  A timer (the 2 s wait of GeneratorClient.Stop,   *)
(* the 3 s drain context, a retry backoff) is an event that may happen     *)
(* while the party it races with is blocked; a goroutine blocked on a      *)
(* mutex or in I/O simply has no enabled step.  float64 and time.Time      *)
(* values are small integers; the zero time.Time is 0.                     *)
(***************************************************************************)
EXTENDS Integers, Sequences, FiniteSets, TLC

(***************************************************************************)
(* Bounds of the model.                                                    *)
(***************************************************************************)
\* polls the polling worker may begin (pollAndIngest calls)
MaxPolls == 3
\* capacity of the flush queue in the model (100 in NewHybridStore)
FlushQueueCap == 1
\* producer calls on the hybrid store (IngestMetrics, UpdateBatch)
MaxOps == 2
\* IngestBatch calls on the service
MaxBulkOps == 2
\* IngestMetrics calls on the service
MaxIngests == 3
\* how many queries the service answers
MaxReads == 2
\* how far the wall clock runs
MaxClock == 2
\* how many write calls the cache takes while its readers run
MaxCacheWrites == 2
\* how many times Start is called on the service
MaxStartCalls == 3
\* how many times Stop is called on the service
MaxStopCalls == 3
\* how many calls are made on the cache's methods, one after the other
MaxCacheOps == 3
\* how many counted read calls are made on the cache by its goroutines
MaxStatCalls == 3
\* how many times the client is started again after a Stop
MaxRestarts == 1
\* the greatest configured value of max_retries that is tried
MaxRetryConfig == 2
\* capacity of the request queue's channel in the model (QueueSize)
RqQueueSize == 1
\* how many requests are submitted through the request queue
MaxQueueCalls == 3
\* how many times FlushToDatabase is called
MaxFlushCalls == 1

(***************************************************************************)
(* Configuration values of the program.                                    *)
(***************************************************************************)
\* DefaultHybridStoreConfig: MaxRetries
MaxRetries == 3
\* GetHealthStatus: the data age, in seconds, above which the service is
\* degraded
DataAgeLimit == 300

(***************************************************************************)
(* Small helpers.                                                          *)
(***************************************************************************)
\* the last n elements of s (all of s when it is shorter)
LastN(s, n) ==
    IF Len(s) <= n THEN s ELSE SubSeq(s, Len(s) - n + 1, Len(s))

(***************************************************************************)
(* The upstream generator's responses (generator_client.go, fetchCSVData   *)
(* and the headers fetchAndProcessData reads).  A body is the sequence of  *)
(* CSV records, header first.  A row carries its number of columns, its    *)
(* switch id, its timestamp (0: not RFC 3339) and whether its five numeric *)
(* fields parse.                                                           *)
(***************************************************************************)
HeaderRow == [cols |-> 7, switch_id |-> "switch_id", ts |-> 0, nums |-> FALSE]
RowOk     == [cols |-> 7, switch_id |-> "sw1", ts |-> 1, nums |-> TRUE]
RowBadTs  == [cols |-> 7, switch_id |-> "sw2", ts |-> 0, nums |-> TRUE]
RowNoId   == [cols |-> 7, switch_id |-> "",    ts |-> 1, nums |-> TRUE]
RowShort  == [cols |-> 6, switch_id |-> "sw1", ts |-> 1, nums |-> TRUE]
RowSw2    == [cols |-> 7, switch_id |-> "sw2", ts |-> 1, nums |-> TRUE]

\* The responses the generator may give: generation id ("": no
\* X-Generation-ID header), X-Data-Timestamp (0: absent or unparseable) and
\* body.
Responses ==
    { [gen |-> "g1", hdrTs |-> 1, body |-> << HeaderRow, RowOk >>],
      [gen |-> "g2", hdrTs |-> 2,
       body |-> << HeaderRow, RowOk, RowNoId, RowSw2, RowOk >>],
      [gen |-> "g1", hdrTs |-> 0, body |-> << HeaderRow, RowBadTs, RowOk >>],
      [gen |-> "",   hdrTs |-> 0, body |-> << HeaderRow, RowOk >>],
      [gen |-> "g2", hdrTs |-> 2, body |-> << HeaderRow, RowNoId >>],
      [gen |-> "g1", hdrTs |-> 2, body |-> << HeaderRow, RowShort, RowOk >>],
      [gen |-> "g2", hdrTs |-> 1, body |-> << HeaderRow >>],
      [gen |-> "",   hdrTs |-> 0, body |-> << >>] }

\* the value of the worker's response variable while nothing was fetched
NoResp == [gen |-> "", hdrTs |-> 0, body |-> << >>]

(***************************************************************************)
(* Pure functions of the generator client.                                 *)
(***************************************************************************)
\* extractFirstTimestampFromCSV: the timestamp column of the first data
\* line, the zero time when there is none or it does not parse
extractFirstTimestampFromCSV(body) ==
    IF Len(body) < 2 THEN 0
    ELSE IF body[2].cols < 2 THEN 0
    ELSE body[2].ts

\* the data timestamp fetchAndProcessData derives: the header's, else the
\* first row's
DataTimestamp(r) ==
    IF r.hdrTs = 0 /\ Len(r.body) > 0
    THEN extractFirstTimestampFromCSV(r.body)
    ELSE r.hdrTs

\* isDuplicateData without its generation-id test: the timestamp fallback
\* alone
isDuplicateDataTimestampOnly(generationID, dataTimestamp, lastG, lastT) ==
    dataTimestamp # 0 /\ ~(dataTimestamp > lastT)

\* isDuplicateData, against the last-seen tuple (lastG, lastT)
isDuplicateData(generationID, dataTimestamp, lastG, lastT) ==
    \/ generationID # "" /\ generationID = lastG
    \/ dataTimestamp # 0 /\ ~(dataTimestamp > lastT)

\* csv.Reader.ReadAll fails when a record's field count differs from the
\* first record's (FieldsPerRecord = 0)
CsvReadError(body) ==
    \E i \in 1..Len(body) : body[i].cols # body[1].cols

\* parseCSVData returns an error: unreadable CSV, or no data row
parseCSVError(body) ==
    CsvReadError(body) \/ Len(body) < 2

\* parseCSVRecord succeeds on a row
parseCSVRecordOk(row) == row.ts # 0 /\ row.nums

\* a parsed row, as a TelemetryData of which the client spec keeps the
\* switch id and the timestamp
ParsedRow(row) == [switch_id |-> row.switch_id, timestamp |-> row.ts]

RECURSIVE ParseRows(_)
\* parseCSVData's loop over records[1:]: short and unparseable rows are
\* skipped
ParseRows(rows) ==
    IF rows = << >> THEN << >>
    ELSE IF Head(rows).cols < 7 \/ ~parseCSVRecordOk(Head(rows))
         THEN ParseRows(Tail(rows))
         ELSE << ParsedRow(Head(rows)) >> \o ParseRows(Tail(rows))

\* parseCSVData's result when it returns no error
parseCSVData(body) == ParseRows(Tail(body))

(***************************************************************************)
(* Pure functions of the telemetry service.                                *)
(***************************************************************************)
HasSwitchID(d) == d.switch_id # ""

\* IngestBatch's filter: the records with a non-empty switch id
ValidData(data) == SelectSeq(data, HasSwitchID)

\* IngestBatch's result, given the result of StoreMetricsBulk
IngestBatchResult(data, storeOk) ==
    IF Len(data) = 0 THEN "ok"
    ELSE IF Len(ValidData(data)) = 0 THEN "no_valid_data"
    ELSE IF storeOk THEN "ok"
    ELSE "store_error"

(***************************************************************************)
(* State.                                                                  *)
(***************************************************************************)
VARIABLES
    \* ---- GeneratorClient (generator_client.go) ----
    cfg,                \* startupDelay > 0, readinessCheck
    gcRunning,          \* gc.running
    gcCtx,              \* gc.ctx: "nil", "live", "cancelled"
    pwPc,               \* where the polling worker is
    tickPending,        \* a tick waits in ticker.C
    resp,               \* the response the current poll fetched
    telemetryData,      \* the records the current poll parsed
    lastGenerationID,   \* gc.lastGenerationID
    lastDataTimestamp,  \* gc.lastDataTimestamp
    gcStats,            \* totalPolls, successfulPolls, duplicateSkips, errorCount
    fetchErr,           \* the error the last fetchCSVData returned ("none": nil)
    stopPc,             \* GeneratorClient.Stop: "idle", "waiting", "returned"
    stopResult,         \* which branch of Stop's select was taken
    upstreamRequests,   \* GET /counters requests sent to the generator
    ingestCalls,        \* Service.IngestBatch calls made by the client
    pollLog,            \* the last two finished polls
    replay,             \* the generation ids of the finished polls, and
                        \* whether each of them fetched an ingestible
                        \* response with a generation id and none failed
    oldPw,              \* the polling worker of the Start before the last
                        \* one: where it is, the response it holds; and how
                        \* many times Start was called again after a Stop
    \* ---- HybridStore (hybrid.go), cache, repository ----
    cache,              \* InMemoryCache.data: switch id -> record or NoData
    flushQueue,         \* hs.flushQueue: the batches waiting
    hsCtx,              \* hs.ctx: "nil", "live", "cancelled"
    flushCtx,           \* the drain context: "none", "live", "expired"
    hsStats,            \* totalRequests, totalDBWrites, totalDBWriteErrors,
                        \* pendingFlushItems
    fwPc,               \* where the flush worker is
    wr,                 \* the running writeToDatabase calls, one per caller
    hsStopPc,           \* HybridStore.Stop: "idle", "waiting", "returned"
    repoClosed,         \* PostgreSQLRepository.Close was called
    repoRows,           \* the rows of telemetry_metrics, in insertion order
    finished,           \* per caller, the last writeToDatabase call that
                        \* returned: its batch, its counts, its result
    warned,             \* batch ids named in "retrying" warnings
    drainFailed,        \* batch ids named in "Failed to flush ... shutdown"
    accepted,           \* batch ids enqueued before Stop cancelled hs.ctx
    batches,            \* batch id -> the records of the batch
    lastOp,             \* the last call on the store or service, its result
    lastUpdated,        \* InMemoryCache.lastUpdated: switch id -> time, 0 none
    now,                \* the wall clock, time.Now()
    lastRead,           \* the last query answered by the service
    \* ---- InMemoryCache (cache.go), statement by statement ----
    cacheMu,            \* c.mu: writer holds it, number of readers holding it
    cacheWriter,        \* the goroutine inside UpdateMetrics or UpdateBatch
    cacheReader,        \* the goroutine inside GetAllMetrics,
                        \* ListAllSwitches or GetSnapshot
    written,            \* every complete record a write call has stored
    cacheStats,         \* c.requestCount and c.hitCount, and the goroutines
                        \* inside GetMetric, GetAllMetrics or ListAllSwitches
                        \* that count their request
    \* ---- lifecycle calls on the service ----
    hsLife,             \* Start and Stop calls made and their last results,
                        \* how many sets of workers Start has launched
    qts,                \* QueuedTelemetryService and its RequestQueue
    \* ---- app (app.go) ----
    app,                \* where app.Start / app.Stop is, the HTTP server,
                        \* the goroutine of closeServiceContext, how
                        \* awaitShutdown ended
    \* ---- calls received by the service ----
    switchRegs,         \* the RegisterSwitch calls of the last poll that
                        \* registered: the poll's number, and per call the
                        \* switch id and whether the service accepted it
    \* ---- RequestQueue (models.go) ----
    rq,                 \* the request channel, the queue's context, its
                        \* workers, its counters, where Stop is, and the
                        \* goroutines inside QueueGetMetric
    \* ---- HybridStore.FlushToDatabase ----
    mf                  \* where the manual flush is, the batches it has
                        \* collected, and how its last write ended

clientVars ==
    << cfg, gcRunning, gcCtx, pwPc, tickPending, resp, telemetryData,
       lastGenerationID, lastDataTimestamp, gcStats, fetchErr, stopPc,
       stopResult, upstreamRequests, ingestCalls, pollLog, replay, oldPw >>

storeVars ==
    << cache, flushQueue, hsCtx, flushCtx, hsStats, fwPc, wr, hsStopPc,
       repoClosed, repoRows, finished, warned, drainFailed, accepted,
       batches, lastOp, lastUpdated, now, lastRead, cacheMu, cacheWriter,
       cacheReader, written, cacheStats, hsLife, qts, app, switchRegs,
       rq, mf >>

\* what only the app's own steps change
appVars == << app >>

\* what only the client's calls on the service and the request queue's own
\* steps change
svcVars == << switchRegs, rq, mf >>

\* the queue, the workers and the repository behind the cache
queueVars ==
    << flushQueue, hsCtx, flushCtx, hsStats, fwPc, wr, hsStopPc, repoClosed,
       repoRows, finished, warned, drainFailed, accepted, batches >>

\* what only the lifecycle calls change
lifeVars == << hsLife, qts >>

\* what only the goroutines inside the cache's methods change
lockVars == << cacheMu, cacheWriter, cacheReader, written, cacheStats >>

\* what only the queries and the clock change
readVars == << now, lastRead >>

vars == << clientVars, storeVars >>

(***************************************************************************)
(* Contexts.  A context is named by its kind; CtxDone says whether its     *)
(* Done channel is closed.                                                 *)
(***************************************************************************)
CtxDone(kind) ==
    CASE kind = "gc" -> gcCtx = "cancelled"
      [] kind = "hs" -> hsCtx = "cancelled"
      [] kind = "flush" -> flushCtx = "expired"
      [] OTHER -> FALSE             \* context.Background()

(***************************************************************************)
(* GeneratorClient.                                                        *)
(***************************************************************************)
\* no worker of an earlier Start, no Start after a Stop
NoOldWorker == [pc |-> "none", resp |-> NoResp, restarts |-> 0]

ClientInit ==
    /\ cfg \in [startupDelay : BOOLEAN, readinessCheck : BOOLEAN]
    /\ gcRunning = FALSE
    /\ gcCtx = "nil"
    /\ pwPc = "none"
    /\ tickPending = FALSE
    /\ resp = NoResp
    /\ telemetryData = << >>
    /\ lastGenerationID = ""
    /\ lastDataTimestamp = 0
    /\ gcStats = [totalPolls |-> 0, successfulPolls |-> 0,
                  duplicateSkips |-> 0, errorCount |-> 0]
    /\ fetchErr = "none"
    /\ stopPc = "idle"
    /\ stopResult = "none"
    /\ upstreamRequests = 0
    /\ ingestCalls = 0
    /\ pollLog = << >>
    /\ replay = [gens |-> {}, clean |-> TRUE]
    /\ oldPw = NoOldWorker

\* Stop holds gc.mu from its first line until it returns (defer Unlock)
StopHoldsMu == stopPc = "waiting"

\* the entry a finished poll leaves in the log
PollEntry(fetched, r, outcome, calls, skips) ==
    [fetched |-> fetched, resp |-> r, outcome |-> outcome,
     ingestCalls |-> calls, duplicateSkips |-> skips]

\* where the worker goes after the startup delay
\* a fetched response the service can ingest: it parses and at least one
\* of its records has a switch id
Ingestible(r) ==
    /\ ~parseCSVError(r.body)
    /\ IngestBatchResult(parseCSVData(r.body), TRUE) = "ok"

\* the replay history after a poll that fetched r finished; ok says that the
\* response was ingestible and that the ingest, if made, succeeded
Replayed(h, r, ok) ==
    [gens |-> IF r.gen = "" THEN h.gens ELSE h.gens \cup {r.gen},
     clean |-> h.clean /\ ok /\ r.gen # ""]

AfterStartup == IF cfg.readinessCheck THEN "readiness" ELSE "poll"

\* Start: the first call; it starts the polling worker
GcStart ==
    /\ ~gcRunning /\ gcCtx = "nil" /\ stopPc = "idle"
    /\ gcRunning' = TRUE
    /\ gcCtx' = "live"
    /\ pwPc' = IF cfg.startupDelay THEN "startup" ELSE AfterStartup
    /\ UNCHANGED << cfg, tickPending, resp, telemetryData, lastGenerationID,
                    lastDataTimestamp, gcStats, fetchErr, stopPc, stopResult,
                    upstreamRequests, ingestCalls, pollLog, replay >>
    /\ UNCHANGED << storeVars, oldPw >>

\* pollingWorker, the startup-delay select
PwStartupDelay ==
    /\ pwPc = "startup"
    /\ \/ /\ CtxDone("gc")
          /\ pwPc' = "exited"
       \/ pwPc' = AfterStartup
    /\ UNCHANGED << cfg, gcRunning, gcCtx, tickPending, resp, telemetryData,
                    lastGenerationID, lastDataTimestamp, gcStats, fetchErr,
                    stopPc, stopResult, upstreamRequests, ingestCalls,
                    pollLog, replay >>
    /\ UNCHANGED << storeVars, oldPw >>

\* pollingWorker, checkGeneratorReadiness: GET /health, its result only logged
PwReadiness ==
    /\ pwPc = "readiness"
    /\ pwPc' = "poll"
    /\ UNCHANGED << cfg, gcRunning, gcCtx, tickPending, resp, telemetryData,
                    lastGenerationID, lastDataTimestamp, gcStats, fetchErr,
                    stopPc, stopResult, upstreamRequests, ingestCalls,
                    pollLog, replay >>
    /\ UNCHANGED << storeVars, oldPw >>

\* ticker.C receives a tick (capacity 1); counted against MaxPolls
Tick ==
    /\ pwPc \notin {"none", "startup", "readiness", "poll", "exited"}
    /\ ~tickPending
    /\ gcStats.totalPolls < MaxPolls
    /\ tickPending' = TRUE
    /\ UNCHANGED << cfg, gcRunning, gcCtx, pwPc, resp, telemetryData,
                    lastGenerationID, lastDataTimestamp, gcStats, fetchErr,
                    stopPc, stopResult, upstreamRequests, ingestCalls,
                    pollLog, replay >>
    /\ UNCHANGED << storeVars, oldPw >>

\* pollAndIngest: count the poll under gc.mu, then fetchAndProcessData
PwPollAndIngest ==
    /\ pwPc = "poll"
    /\ ~StopHoldsMu
    /\ gcStats' = [gcStats EXCEPT !.totalPolls = @ + 1]
    /\ resp' = NoResp
    /\ telemetryData' = << >>
    /\ pwPc' = "fetch_check"
    /\ UNCHANGED << cfg, gcRunning, gcCtx, tickPending, lastGenerationID,
                    lastDataTimestamp, fetchErr, stopPc, stopResult,
                    upstreamRequests, ingestCalls, pollLog, replay >>
    /\ UNCHANGED << storeVars, oldPw >>

\* an error branch that logs the failed fetch without counting it
FetchFailedUncounted(err) ==
    /\ ~StopHoldsMu
    /\ fetchErr' = err
    /\ pollLog' = LastN(Append(pollLog,
                   PollEntry(FALSE, NoResp, "fetch_error", 0,
                             gcStats.duplicateSkips)), 2)
    /\ UNCHANGED replay
    /\ pwPc' = "loop"
    /\ UNCHANGED << cfg, gcRunning, gcCtx, tickPending, resp, telemetryData,
                    lastGenerationID, lastDataTimestamp, gcStats, stopPc,
                    stopResult, upstreamRequests, ingestCalls >>

\* fetchAndProcessData's error branch after fetchCSVData returned err
FetchFailed(err) ==
    /\ ~StopHoldsMu
    /\ gcStats' = [gcStats EXCEPT !.errorCount = @ + 1]
    /\ fetchErr' = err
    /\ pollLog' = LastN(Append(pollLog,
                   PollEntry(FALSE, NoResp, "fetch_error", 0,
                             gcStats.duplicateSkips)), 2)
    /\ UNCHANGED replay
    /\ pwPc' = "loop"
    /\ UNCHANGED << cfg, gcRunning, gcCtx, tickPending, resp, telemetryData,
                    lastGenerationID, lastDataTimestamp, stopPc, stopResult,
                    upstreamRequests, ingestCalls >>

\* fetchCSVData, the select on gc.ctx.Done() before the request is built
PwFetchCheck ==
    /\ pwPc = "fetch_check"
    /\ \/ /\ CtxDone("gc")
          /\ FetchFailed("ctx")
       \/ /\ ~CtxDone("gc")
          /\ pwPc' = "fetch_do"
          /\ UNCHANGED << cfg, gcRunning, gcCtx, tickPending, resp,
                          telemetryData, lastGenerationID, lastDataTimestamp,
                          gcStats, fetchErr, stopPc, stopResult,
                          upstreamRequests, ingestCalls, pollLog, replay >>
    /\ UNCHANGED << storeVars, oldPw >>

\* the request is built on context.Background() instead of gc.ctx
RequestCtxBackground == "background"

\* the context of the request: context.WithTimeout(gc.ctx, gc.timeout)
RequestCtx == "gc"

\* fetchCSVData, httpClient.Do: the transport sends nothing when the
\* request's context is already done
PwFetchDo ==
    /\ pwPc = "fetch_do"
    /\ \/ /\ CtxDone(RequestCtx)
          /\ FetchFailed("ctx")
       \/ /\ ~CtxDone(RequestCtx)
          /\ upstreamRequests' = upstreamRequests + 1
          /\ pwPc' = "fetch_wait"
          /\ UNCHANGED << cfg, gcRunning, gcCtx, tickPending, resp,
                          telemetryData, lastGenerationID, lastDataTimestamp,
                          gcStats, fetchErr, stopPc, stopResult, ingestCalls,
                          pollLog, replay >>
    /\ UNCHANGED << storeVars, oldPw >>

\* fetchCSVData, the request in flight ends: cancelled, a transport error or
\* timeout, a status other than 200, or a 200 with some response
PwFetchReturn ==
    /\ pwPc = "fetch_wait"
    /\ \/ /\ CtxDone(RequestCtx)
          /\ FetchFailed("ctx")
       \/ FetchFailed("transport")
       \/ FetchFailed("status")
       \/ \E r \in Responses :
             /\ resp' = r
             /\ fetchErr' = "none"
             /\ pwPc' = "dedup"
             /\ UNCHANGED << cfg, gcRunning, gcCtx, tickPending,
                             telemetryData, lastGenerationID,
                             lastDataTimestamp, gcStats, stopPc, stopResult,
                             upstreamRequests, ingestCalls, pollLog, replay >>
    /\ UNCHANGED << storeVars, oldPw >>

\* fetchAndProcessData, the duplicate test (isDuplicateData takes gc.mu)
PwDedup ==
    /\ pwPc = "dedup"
    /\ ~StopHoldsMu
    /\ \/ /\ isDuplicateData(resp.gen, DataTimestamp(resp),
                             lastGenerationID, lastDataTimestamp)
          /\ gcStats' = [gcStats EXCEPT !.duplicateSkips = @ + 1]
          /\ pollLog' = LastN(Append(pollLog,
                         PollEntry(TRUE, resp, "duplicate", 0,
                                   gcStats.duplicateSkips + 1)), 2)
          /\ replay' = Replayed(replay, resp, Ingestible(resp))
          /\ pwPc' = "loop"
       \/ /\ ~isDuplicateData(resp.gen, DataTimestamp(resp),
                              lastGenerationID, lastDataTimestamp)
          /\ pwPc' = "parse"
          /\ UNCHANGED << gcStats, pollLog, replay >>
    /\ UNCHANGED << cfg, gcRunning, gcCtx, tickPending, resp, telemetryData,
                    lastGenerationID, lastDataTimestamp, fetchErr, stopPc,
                    stopResult, upstreamRequests, ingestCalls >>
    /\ UNCHANGED << storeVars, oldPw >>

\* fetchAndProcessData, parseCSVData
PwParse ==
    /\ pwPc = "parse"
    /\ \/ /\ parseCSVError(resp.body)
          /\ ~StopHoldsMu
          /\ gcStats' = [gcStats EXCEPT !.errorCount = @ + 1]
          /\ pollLog' = LastN(Append(pollLog,
                         PollEntry(TRUE, resp, "parse_error", 0,
                                   gcStats.duplicateSkips)), 2)
          /\ replay' = Replayed(replay, resp, FALSE)
          /\ pwPc' = "loop"
          /\ UNCHANGED telemetryData
       \/ /\ ~parseCSVError(resp.body)
          /\ telemetryData' = parseCSVData(resp.body)
          /\ pwPc' = "register"
          /\ UNCHANGED << gcStats, pollLog, replay >>
    /\ UNCHANGED << cfg, gcRunning, gcCtx, tickPending, resp,
                    lastGenerationID, lastDataTimestamp, fetchErr, stopPc,
                    stopResult, upstreamRequests, ingestCalls >>
    /\ UNCHANGED << storeVars, oldPw >>

\* a registration loop that gives up at the first RegisterSwitch error
UnregisteredUntilError(data, calls) ==
    IF \E j \in DOMAIN calls : ~calls[j].ok THEN {}
    ELSE {i \in DOMAIN data :
            /\ data[i].switch_id # ""
            /\ data[i].switch_id \notin {calls[j].sw : j \in DOMAIN calls}}

\* registerSwitchesFromData: the positions of the batch its loop has still
\* to register, after the calls made: the records with a switch id that is
\* not in seenSwitches
Unregistered(data, calls) ==
    {i \in DOMAIN data :
       /\ data[i].switch_id # ""
       /\ data[i].switch_id \notin {calls[j].sw : j \in DOMAIN calls}}

\* the RegisterSwitch calls the poll in progress has made
PollCalls ==
    IF switchRegs.poll = gcStats.totalPolls THEN switchRegs.calls ELSE << >>

\* registerSwitchesFromData, one turn of its loop that calls
\* service.RegisterSwitch: the first record not yet registered; the call
\* succeeds or fails, and the loop goes on in both cases
PwRegisterSwitch ==
    /\ pwPc = "register"
    /\ Unregistered(telemetryData, PollCalls) # {}
    /\ LET S == Unregistered(telemetryData, PollCalls)
           i == CHOOSE k \in S : \A l \in S : k <= l
       IN  \E ok \in BOOLEAN :
             switchRegs' =
                [poll |-> gcStats.totalPolls,
                 calls |-> Append(PollCalls,
                                  [sw |-> telemetryData[i].switch_id,
                                   ok |-> ok])]
    /\ UNCHANGED << clientVars, rq, mf >>
    /\ UNCHANGED << cache, flushQueue, hsCtx, flushCtx, hsStats, fwPc, wr,
                    hsStopPc, repoClosed, repoRows, finished, warned,
                    drainFailed, accepted, batches, lastOp, lastUpdated >>
    /\ UNCHANGED << appVars, readVars, lockVars, lifeVars >>

\* fetchAndProcessData: registerSwitchesFromData's loop is over and the
\* call of service.IngestBatch begins
PwRegister ==
    /\ pwPc = "register"
    /\ Unregistered(telemetryData, PollCalls) = {}
    /\ ingestCalls' = ingestCalls + 1
    /\ pwPc' = "ingest"
    /\ UNCHANGED << cfg, gcRunning, gcCtx, tickPending, resp, telemetryData,
                    lastGenerationID, lastDataTimestamp, gcStats, fetchErr,
                    stopPc, stopResult, upstreamRequests, pollLog, replay >>
    /\ UNCHANGED << storeVars, oldPw >>

\* service.IngestBatch returns and the last-seen tuple is updated whether
\* the call succeeded or not
PwIngestReturnAlwaysUpdates ==
    /\ pwPc = "ingest"
    /\ ~StopHoldsMu
    /\ \E storeOk \in BOOLEAN :
         \/ /\ IngestBatchResult(telemetryData, storeOk) # "ok"
            /\ gcStats' = [gcStats EXCEPT !.errorCount = @ + 1]
            /\ pollLog' = LastN(Append(pollLog,
                           PollEntry(TRUE, resp, "ingest_error", 1,
                                     gcStats.duplicateSkips)), 2)
            /\ replay' = Replayed(replay, resp, FALSE)
            /\ lastGenerationID' = resp.gen
            /\ lastDataTimestamp' = DataTimestamp(resp)
         \/ /\ IngestBatchResult(telemetryData, storeOk) = "ok"
            /\ lastGenerationID' = resp.gen
            /\ lastDataTimestamp' = DataTimestamp(resp)
            /\ gcStats' = [gcStats EXCEPT !.successfulPolls = @ + 1]
            /\ pollLog' = LastN(Append(pollLog,
                           PollEntry(TRUE, resp, "ingested", 1,
                                     gcStats.duplicateSkips)), 2)
            /\ replay' = Replayed(replay, resp, TRUE)
    /\ pwPc' = "loop"
    /\ UNCHANGED << cfg, gcRunning, gcCtx, tickPending, resp, telemetryData,
                    fetchErr, stopPc, stopResult, upstreamRequests,
                    ingestCalls >>
    /\ UNCHANGED << storeVars, oldPw >>

\* fetchAndProcessData, service.IngestBatch returns: on an error count it,
\* on success update the last-seen tuple
PwIngestReturn ==
    /\ pwPc = "ingest"
    /\ ~StopHoldsMu
    /\ \E storeOk \in BOOLEAN :
         \/ /\ IngestBatchResult(telemetryData, storeOk) # "ok"
            /\ gcStats' = [gcStats EXCEPT !.errorCount = @ + 1]
            /\ pollLog' = LastN(Append(pollLog,
                           PollEntry(TRUE, resp, "ingest_error", 1,
                                     gcStats.duplicateSkips)), 2)
            /\ replay' = Replayed(replay, resp, FALSE)
            /\ UNCHANGED << lastGenerationID, lastDataTimestamp >>
         \/ /\ IngestBatchResult(telemetryData, storeOk) = "ok"
            /\ lastGenerationID' = resp.gen
            /\ lastDataTimestamp' = DataTimestamp(resp)
            /\ gcStats' = [gcStats EXCEPT !.successfulPolls = @ + 1]
            /\ pollLog' = LastN(Append(pollLog,
                           PollEntry(TRUE, resp, "ingested", 1,
                                     gcStats.duplicateSkips)), 2)
            /\ replay' = Replayed(replay, resp, TRUE)
    /\ pwPc' = "loop"
    /\ UNCHANGED << cfg, gcRunning, gcCtx, tickPending, resp, telemetryData,
                    fetchErr, stopPc, stopResult, upstreamRequests,
                    ingestCalls >>
    /\ UNCHANGED << storeVars, oldPw >>

\* pollingWorker, the loop's select: either ready case may be taken
PwLoop ==
    /\ pwPc = "loop"
    /\ \/ /\ CtxDone("gc")
          /\ pwPc' = "exited"
          /\ UNCHANGED tickPending
       \/ /\ tickPending
          /\ tickPending' = FALSE
          /\ pwPc' = "poll"
    /\ UNCHANGED << cfg, gcRunning, gcCtx, resp, telemetryData,
                    lastGenerationID, lastDataTimestamp, gcStats, fetchErr,
                    stopPc, stopResult, upstreamRequests, ingestCalls,
                    pollLog, replay >>
    /\ UNCHANGED << storeVars, oldPw >>

\* Stop: cancel the context, clear running, start waiting for the worker
GcStop ==
    /\ gcRunning
    /\ stopPc = "idle"
    /\ gcCtx' = "cancelled"
    /\ gcRunning' = FALSE
    /\ stopPc' = "waiting"
    /\ UNCHANGED << cfg, pwPc, tickPending, resp, telemetryData,
                    lastGenerationID, lastDataTimestamp, gcStats, fetchErr,
                    stopResult, upstreamRequests, ingestCalls,
                    pollLog, replay >>
    /\ UNCHANGED << storeVars, oldPw >>

(***************************************************************************)
(* Start after Stop.  Stop leaves gc.running false whichever way it        *)
(* returns, so Start passes its test, replaces gc.ctx and gc.cancel and    *)
(* starts a new polling worker.  The worker of the Start before, when Stop *)
(* timed out on it, is still inside its poll; its loop reads gc.ctx, the   *)
(* field Start has replaced.  Of that worker the model keeps where it is:  *)
(* about to poll, inside a poll, at the loop's select, or exited.          *)
(***************************************************************************)
\* the worker is inside pollAndIngest, after it counted the poll
PollInProgress(pc) ==
    pc \in {"fetch_check", "fetch_do", "fetch_wait", "dedup", "parse",
            "register", "ingest"}

\* the worker's goroutine has started and not returned
WorkerAlive(pc) == pc \notin {"none", "exited"}

\* Start, called after Stop has returned
GcRestart ==
    /\ ~gcRunning /\ stopPc = "returned"
    /\ oldPw.restarts < MaxRestarts
    /\ ~WorkerAlive(oldPw.pc)
    /\ gcRunning' = TRUE
    /\ gcCtx' = "live"
    /\ stopPc' = "idle"
    /\ oldPw' = [pc |-> IF ~WorkerAlive(pwPc) THEN "none"
                        ELSE IF PollInProgress(pwPc) THEN "inflight"
                        ELSE IF pwPc = "poll" THEN "poll" ELSE "loop",
                 resp |-> IF PollInProgress(pwPc) THEN resp ELSE NoResp,
                 restarts |-> oldPw.restarts + 1]
    /\ pwPc' = IF cfg.startupDelay THEN "startup" ELSE AfterStartup
    /\ resp' = NoResp
    /\ telemetryData' = << >>
    /\ tickPending' = FALSE
    /\ UNCHANGED << cfg, lastGenerationID, lastDataTimestamp, gcStats,
                    fetchErr, stopResult, upstreamRequests, ingestCalls,
                    pollLog, replay >>
    /\ UNCHANGED storeVars

\* the old worker's pollAndIngest begins: it counts the poll under gc.mu
OldPwPollAndIngest ==
    /\ oldPw.pc = "poll"
    /\ ~StopHoldsMu
    /\ gcStats.totalPolls < MaxPolls
    /\ gcStats' = [gcStats EXCEPT !.totalPolls = @ + 1]
    /\ oldPw' = [oldPw EXCEPT !.pc = "inflight", !.resp = NoResp]
    /\ UNCHANGED << cfg, gcRunning, gcCtx, pwPc, tickPending, resp,
                    telemetryData, lastGenerationID, lastDataTimestamp,
                    fetchErr, stopPc, stopResult, upstreamRequests,
                    ingestCalls, pollLog, replay >>
    /\ UNCHANGED storeVars

\* the old worker's fetchAndProcessData returns, in one of its three ways:
\* an error counted, a duplicate skipped, or the response it holds (or one
\* it fetches) ingested and made the last-seen tuple
OldPwPollEnds ==
    /\ oldPw.pc = "inflight"
    /\ ~StopHoldsMu
    /\ \/ /\ gcStats' = [gcStats EXCEPT !.errorCount = @ + 1]
          /\ UNCHANGED << lastGenerationID, lastDataTimestamp >>
       \/ /\ oldPw.resp = NoResp
          /\ gcStats' = [gcStats EXCEPT !.duplicateSkips = @ + 1]
          /\ UNCHANGED << lastGenerationID, lastDataTimestamp >>
       \/ \E r \in Responses :
             /\ oldPw.resp # NoResp => r = oldPw.resp
             /\ Ingestible(r)
             /\ gcStats' = [gcStats EXCEPT !.successfulPolls = @ + 1]
             /\ lastGenerationID' = r.gen
             /\ lastDataTimestamp' = DataTimestamp(r)
    /\ oldPw' = [oldPw EXCEPT !.pc = "loop", !.resp = NoResp]
    /\ UNCHANGED << cfg, gcRunning, gcCtx, pwPc, tickPending, resp,
                    telemetryData, fetchErr, stopPc, stopResult,
                    upstreamRequests, ingestCalls, pollLog, replay >>
    /\ UNCHANGED storeVars

\* the old worker's select: gc.ctx is read without gc.mu while Start has
\* written it, so the worker sees the context of its own Start, which is
\* cancelled, and returns, or the new one, and then returns only when
\* that one is cancelled and polls at its ticker's next tick otherwise
OldPwLoop ==
    /\ oldPw.pc = "loop"
    /\ \/ oldPw' = [oldPw EXCEPT !.pc = "exited"]
       \/ /\ ~CtxDone("gc")
          /\ oldPw' = [oldPw EXCEPT !.pc = "poll"]
    /\ UNCHANGED << cfg, gcRunning, gcCtx, pwPc, tickPending, resp,
                    telemetryData, lastGenerationID, lastDataTimestamp,
                    gcStats, fetchErr, stopPc, stopResult, upstreamRequests,
                    ingestCalls, pollLog, replay >>
    /\ UNCHANGED storeVars

\* the worker cannot go on while Stop waits: it is in a call made under
\* context.Background() (RegisterSwitch, IngestBatch), or its next statement
\* takes gc.mu, which Stop holds
PwBlocked ==
    \/ pwPc \in {"register", "ingest", "poll", "dedup", "fetch_wait"}
    \/ pwPc \in {"fetch_check", "fetch_do"} /\ CtxDone("gc")
    \/ pwPc = "parse" /\ parseCSVError(resp.body)

\* Stop, case <-done: the worker has exited
GcStopGraceful ==
    /\ stopPc = "waiting"
    /\ pwPc = "exited"
    /\ stopPc' = "returned"
    /\ stopResult' = "graceful"
    /\ UNCHANGED << cfg, gcRunning, gcCtx, pwPc, tickPending, resp,
                    telemetryData, lastGenerationID, lastDataTimestamp,
                    gcStats, fetchErr, upstreamRequests, ingestCalls,
                    pollLog, replay >>
    /\ UNCHANGED << storeVars, oldPw >>

\* Stop, case <-time.After(2 * time.Second)
GcStopTimeout ==
    /\ stopPc = "waiting"
    /\ PwBlocked
    /\ stopPc' = "returned"
    /\ stopResult' = "timeout"
    /\ UNCHANGED << cfg, gcRunning, gcCtx, pwPc, tickPending, resp,
                    telemetryData, lastGenerationID, lastDataTimestamp,
                    gcStats, fetchErr, upstreamRequests, ingestCalls,
                    pollLog, replay >>
    /\ UNCHANGED << storeVars, oldPw >>

(***************************************************************************)
(* Telemetry records (models.TelemetryData) and the calls made on the      *)
(* store.  A record keeps its switch id, its measurement timestamp and its *)
(* five metrics.  Times are integers; 0 is the zero time.Time.             *)
(***************************************************************************)
SwitchIDs == {"sw1", "sw2"}

MkRec(sw, bw, lat, pe, util, temp) ==
    [switch_id |-> sw, timestamp |-> 1, bandwidth_mbps |-> bw,
     latency_ms |-> lat, packet_errors |-> pe, utilization_pct |-> util,
     temperature_c |-> temp]

Rec1  == MkRec("sw1", 10, 1, 0, 50, 40)
Rec1b == MkRec("sw1", 11, 1, 0, 50, 40)
Rec2  == MkRec("sw2", 20, 2, 1, 60, 45)
RecNoId == MkRec("", 10, 1, 0, 50, 40)
\* a record whose Timestamp is the zero time
RecNoTs == [MkRec("sw2", 21, 2, 1, 60, 45) EXCEPT !.timestamp = 0]

\* records with one metric out of its range
OutOfRangeRecs ==
    { MkRec("sw1", -1, 1, 0, 50, 40),     \* negative bandwidth
      MkRec("sw1", 10, -1, 0, 50, 40),    \* negative latency
      MkRec("sw1", 10, 1, -1, 50, 40),    \* negative packet errors
      MkRec("sw1", 10, 1, 0, 101, 40),    \* utilization above 100
      MkRec("sw1", 10, 1, 0, 50, 151) }   \* temperature above 150

\* the records handed to IngestMetrics
IngestInputs == {Rec1, Rec2, RecNoId} \cup OutOfRangeRecs

\* the records handed to IngestMetrics while queries are served
QueryIngestInputs == {Rec1, Rec1b, RecNoTs, RecNoId}

\* the maps handed to HybridStore.UpdateBatch
BatchInputs ==
    { [sw \in {"sw1", "sw2"} |-> IF sw = "sw1" THEN Rec1b ELSE Rec2] }

\* the records handed to HybridStore.UpdateMetrics
UpdateInputs == {Rec1}

\* a second record of sw1 that differs from Rec1 in two metrics
Rec1c == MkRec("sw1", 12, 3, 0, 50, 40)

\* the maps the cache's write methods are called with: UpdateMetrics takes
\* one switch id and its record, UpdateBatch a map
CacheWriteInputs ==
    { [sw \in {"sw1"} |-> Rec1],
      [sw \in {"sw1"} |-> Rec1c],
      [sw \in {"sw1", "sw2"} |-> IF sw = "sw1" THEN Rec1c ELSE Rec2] }

\* the read methods of the cache that return records
CacheReadKinds == {"GetAllMetrics", "ListAllSwitches", "GetSnapshot"}

\* the slices handed to IngestBatch
BulkInputs ==
    { << >>, << RecNoId >>, << Rec1 >>, << Rec1, RecNoId, Rec2 >>,
      << Rec1, Rec1b >> }

\* a record of sw1 measured later than Rec1
Rec1Late == [Rec1b EXCEPT !.timestamp = 2]

\* the arguments of InMemoryCache.UpdateMetrics: the switch id and the
\* record, whose own SwitchID may differ from it
CacheUpdateInputs ==
    { << "sw1", Rec1 >>, << "sw1", Rec1Late >>, << "sw2", RecNoTs >>,
      << "", RecNoId >>, << "sw2", Rec1b >> }

\* the maps handed to InMemoryCache.UpdateBatch: one with a record without
\* timestamp, one with the empty string among its keys, the empty map
CacheBatchInputs ==
    { [sw \in {"sw1", "sw2"} |-> IF sw = "sw1" THEN Rec1 ELSE RecNoTs],
      [sw \in {"", "sw2"} |-> IF sw = "" THEN RecNoId ELSE Rec2],
      << >> }

\* the max_age values CleanupStale is called with
MaxAges == {0, 1}

\* the arguments of direct calls of HybridStore.UpdateMetrics: the switch
\* id and the record, whose own SwitchID may differ from it
WriteUpdateInputs ==
    { << "sw1", Rec1 >>, << "", RecNoId >>, << "sw1", RecNoId >> }

\* the maps of direct calls of HybridStore.UpdateBatch, one with the empty
\* string among its keys
WriteBatchInputs ==
    { [sw \in {"sw1"} |-> Rec1],
      [sw \in {"", "sw1"} |-> IF sw = "" THEN RecNoId ELSE Rec1b] }

\* the slices of direct calls of HybridStore.StoreMetricsBulk
WriteBulkInputs == { << Rec2 >>, << Rec1, RecNoId >> }

\* models.MetricType
MetricTypes ==
    {"bandwidth_mbps", "latency_ms", "packet_errors", "utilization_pct",
     "temperature_c"}

\* the metric types a query may name: the five above and one unknown one
QueryMetricTypes == MetricTypes \cup {"jitter_ms"}

\* the value of a cache slot that holds nothing
NoData == [switch_id |-> ""]

BatchIds == 1 .. (MaxOps + MaxBulkOps + MaxIngests)

(***************************************************************************)
(* Pure functions of the service, the cache, the store and the repository. *)
(***************************************************************************)
\* ValidateMetricData: the error it returns, "" for nil
ValidateMetricData(data) ==
    IF data.switch_id = "" THEN "switchID cannot be empty"
    ELSE IF data.bandwidth_mbps < 0 THEN "bandwidth cannot be negative"
    ELSE IF data.latency_ms < 0 THEN "latency cannot be negative"
    ELSE IF data.packet_errors < 0 THEN "packet errors cannot be negative"
    ELSE IF data.utilization_pct < 0 \/ data.utilization_pct > 100
         THEN "utilization must be between 0 and 100"
    ELSE ""

\* a GetMetricValue that answers a latency query with the bandwidth
GetMetricValueSwapped(td, metricType) ==
    CASE metricType = "bandwidth_mbps"  -> [value |-> td.bandwidth_mbps, err |-> ""]
      [] metricType = "latency_ms"      -> [value |-> td.bandwidth_mbps, err |-> ""]
      [] metricType = "packet_errors"   -> [value |-> td.packet_errors, err |-> ""]
      [] metricType = "utilization_pct" -> [value |-> td.utilization_pct, err |-> ""]
      [] metricType = "temperature_c"   -> [value |-> td.temperature_c, err |-> ""]
      [] OTHER -> [value |-> 0, err |-> "unknown metric type"]

\* TelemetryData.GetMetricValue: the field the metric type names
GetMetricValue(td, metricType) ==
    CASE metricType = "bandwidth_mbps"  -> [value |-> td.bandwidth_mbps, err |-> ""]
      [] metricType = "latency_ms"      -> [value |-> td.latency_ms, err |-> ""]
      [] metricType = "packet_errors"   -> [value |-> td.packet_errors, err |-> ""]
      [] metricType = "utilization_pct" -> [value |-> td.utilization_pct, err |-> ""]
      [] metricType = "temperature_c"   -> [value |-> td.temperature_c, err |-> ""]
      [] OTHER -> [value |-> 0, err |-> "unknown metric type"]

\* InMemoryCache.GetMetric: the value and the error
CacheGetMetric(c, switchID, metricType) ==
    IF c[switchID] = NoData
    THEN [value |-> 0, err |-> "switch not found"]
    ELSE GetMetricValue(c[switchID], metricType)

\* InMemoryCache.GetLastUpdate: the zero time when the switch is unknown
GetLastUpdate(lu, switchID) == lu[switchID]

\* the copy the cache would keep if a zero Timestamp were left alone
StoredCopyKeepsZero(switchID, data) == [data EXCEPT !.switch_id = switchID]

\* the copy the cache keeps: the key becomes its SwitchID, a zero Timestamp
\* becomes time.Now()
StoredCopy(switchID, data) ==
    [data EXCEPT !.switch_id = switchID,
                 !.timestamp = IF @ = 0 THEN now ELSE @]

\* a cache write that keeps the record it holds when that one's Timestamp
\* is greater
CacheUpdateMetricsNewestWins(c, switchID, data) ==
    IF c[switchID] # NoData /\ c[switchID].timestamp > data.timestamp
    THEN c
    ELSE [c EXCEPT ![switchID] = StoredCopy(switchID, data)]

\* time.Time.Before taken as "not after"
NotAfter(t, u) == t <= u

\* time.Time.Before
Before(t, u) == t < u

\* CleanupStale: the keys of c.lastUpdated whose instant is before the cutoff
StaleKeys(lu, cutoff) ==
    { sw \in SwitchIDs : lu[sw] # 0 /\ Before(lu[sw], cutoff) }

\* InMemoryCache.UpdateMetrics (switchID is not empty)
CacheUpdateMetrics(c, switchID, data) ==
    [c EXCEPT ![switchID] = StoredCopy(switchID, data)]

\* InMemoryCache.UpdateBatch: empty switch ids are skipped
CacheUpdateBatch(c, m) ==
    [sw \in SwitchIDs |->
        IF sw \in DOMAIN m THEN StoredCopy(sw, m[sw]) ELSE c[sw]]

\* a write that stores the record and leaves c.lastUpdated as it is
StampUpdatedNever(lu, sws) == lu

\* InMemoryCache.lastUpdated after UpdateBatch, or UpdateMetrics, wrote the
\* switches sws: each is stamped with time.Now()
StampUpdated(lu, sws) ==
    [sw \in SwitchIDs |-> IF sw \in sws THEN now ELSE lu[sw]]

\* HybridStore.UpdateBatch: the slice built by ranging over the map, in any
\* of the orders the iteration may take
MapSlices(m) ==
    { s \in [1 .. Cardinality(DOMAIN m) -> {[m[sw] EXCEPT !.switch_id = sw] :
                                              sw \in DOMAIN m}] :
        \A i, j \in DOMAIN s : i # j => s[i] # s[j] }

\* a cacheData that keeps the first record of the slice per switch id
FirstPerSwitch(metrics) ==
    [sw \in {metrics[i].switch_id : i \in DOMAIN metrics} |->
        LET first == CHOOSE i \in DOMAIN metrics :
                        /\ metrics[i].switch_id = sw
                        /\ \A j \in DOMAIN metrics :
                              metrics[j].switch_id = sw => i <= j
        IN  metrics[first]]

\* StoreMetricsBulk: cacheData, the last record of the slice per switch id
LastPerSwitch(metrics) ==
    [sw \in {metrics[i].switch_id : i \in DOMAIN metrics} |->
        LET last == CHOOSE i \in DOMAIN metrics :
                       /\ metrics[i].switch_id = sw
                       /\ \A j \in DOMAIN metrics :
                             metrics[j].switch_id = sw => j <= i
        IN  metrics[last]]

RECURSIVE RowsFor(_, _)
\* the rows a batch becomes
RowsFor(bid, recs) ==
    IF recs = << >> THEN << >>
    ELSE << [bid |-> bid, rec |-> Head(recs)] >> \o RowsFor(bid, Tail(recs))

\* a transaction that commits without having inserted anything
BulkStoreMetricsNothing(rows, bid, recs) == rows

\* PostgreSQLRepository.BulkStoreMetrics, committed: every row is inserted
BulkStoreMetrics(rows, bid, recs) == rows \o RowsFor(bid, recs)

\* a failed transaction that leaves its first row behind
RollbackKeepsFirstRow(rows, bid, recs) ==
    Append(rows, [bid |-> bid, rec |-> Head(recs)])

\* PostgreSQLRepository.BulkStoreMetrics, failed: tx.Rollback() leaves no row
Rollback(rows, bid, recs) == rows

\* a repository call made under context.Background() whatever ctx is given
RepoCallCtxBackground(ctx) == "background"

\* writeToDatabase hands its own ctx to the repository call
RepoCallCtx(ctx) == ctx

Writers == {"flush", "bulk"}

\* a writer that is not inside writeToDatabase
IdleWriter ==
    [pc |-> "idle", attempt |-> 0, bid |-> 0, ctx |-> "background",
     err |-> "nil", begun |-> 0, transient |-> 0, clean |-> TRUE]

\* writeToDatabase(ctx, batches[bid]) begins: attempt 1, err nil; begun
\* counts the transactions begun, transient the transient failures, clean
\* says that no other failure and no refused call happened
NewWriter(bid, ctx) ==
    [pc |-> "check", attempt |-> 1, bid |-> bid, ctx |-> ctx,
     err |-> "nil", begun |-> 0, transient |-> 0, clean |-> TRUE]

\* no writeToDatabase call has returned yet
NoWrite ==
    [bid |-> 0, begun |-> 0, transient |-> 0, clean |-> TRUE,
     result |-> "none"]

\* the first batch id not yet given out
NextBid == CHOOSE b \in BatchIds :
              /\ batches[b] = << >>
              /\ \A c \in BatchIds : batches[c] = << >> => b <= c

\* NewQueuedTelemetryService, with EnableQueue = enabled: where its Stop is,
\* and the RequestQueue's workers, context and request channel
NewQueuedTelemetryService(enabled) ==
    [queueEnabled |-> enabled, pc |-> "idle", workers |-> 0,
     cancelled |-> FALSE, chanClosed |-> FALSE]

\* the goroutines that submit requests
RqCallers == {"c1", "c2"}

\* the queue's worker goroutines
RqWorkers == {"w1"}

\* a goroutine that is not inside QueueGetMetric
IdleCaller == [pc |-> "idle", req |-> 0, resp |-> FALSE, outcome |-> "none"]

\* NewRequestQueue: an open, empty request channel, a live context, no
\* worker yet
NewRequestQueue ==
    [started |-> FALSE, chan |-> << >>, closed |-> FALSE,
     cancelled |-> FALSE, stop |-> "idle", calls |-> 0,
     worker |-> [w \in RqWorkers |-> [pc |-> "none", req |-> << >>]],
     caller |-> [c \in RqCallers |-> IdleCaller],
     queued |-> 0, processed |-> 0, dropped |-> 0]

\* no call of FlushToDatabase has been made
NoManualFlush ==
    [pc |-> "idle", taken |-> << >>, calls |-> 0,
     last |-> [taken |-> << >>, result |-> "none"]]

\* no goroutine is inside a write method of the cache; calls counts the
\* write calls made
IdleCacheWriter ==
    [pc |-> "idle", m |-> << >>, todo |-> {}, sw |-> "", calls |-> 0]

\* no goroutine is inside a read method of the cache
IdleCacheReader ==
    [pc |-> "idle", kind |-> "none", todo |-> {},
     out |-> [sw \in SwitchIDs |-> NoData], requestCount |-> 0]

\* the goroutines that call the cache's counted read methods
StatReaders == {"g1", "g2"}

\* no goroutine is inside a counted read method
IdleStatReader == [pc |-> "idle", kind |-> "none", sw |-> "", tmp |-> 0]

\* NewInMemoryCache: both counters zero
NewCacheStats ==
    [requestCount |-> 0, hitCount |-> 0, calls |-> 0,
     g |-> [r \in StatReaders |-> IdleStatReader]]

\* no query has been answered yet; for a request served over HTTP the
\* status code and the envelope's success and error
NoRead ==
    [seq |-> 0, name |-> "none", switch_id |-> "", metric |-> "",
     ret |-> "none", value |-> 0, data |-> NoData, timestamp |-> 0,
     status |-> 0, success |-> FALSE, error |-> ""]

StoreInit ==
    /\ cache = [sw \in SwitchIDs |-> NoData]
    /\ flushQueue = << >>
    /\ hsCtx = "nil"
    /\ flushCtx = "none"
    /\ hsStats = [totalRequests |-> 0, totalDBWrites |-> 0,
                  totalDBWriteErrors |-> 0, pendingFlushItems |-> 0]
    /\ fwPc = "notstarted"
    /\ wr = [w \in Writers |-> IdleWriter]
    /\ hsStopPc = "idle"
    /\ repoClosed = FALSE
    /\ repoRows = << >>
    /\ finished = [w \in Writers |-> NoWrite]
    /\ warned = {}
    /\ drainFailed = {}
    /\ accepted = {}
    /\ batches = [b \in BatchIds |-> << >>]
    /\ lastOp = [seq |-> 0, name |-> "none", arg |-> << >>, ret |-> "none"]
    /\ lastUpdated = [sw \in SwitchIDs |-> 0]
    /\ now = 1
    /\ lastRead = NoRead
    /\ cacheMu = [writer |-> FALSE, readers |-> 0]
    /\ cacheWriter = IdleCacheWriter
    /\ cacheReader = IdleCacheReader
    /\ written = {}
    /\ cacheStats = NewCacheStats
    /\ hsLife = [startCalls |-> 0, startRet |-> "none", workers |-> 0,
                 stopCalls |-> 0, stopRet |-> "none"]
    /\ qts \in {NewQueuedTelemetryService(e) : e \in BOOLEAN}
    /\ app = [pc |-> "init", http |-> "down", svcCtx |-> "none",
              shutdown |-> "none"]
    /\ switchRegs = [poll |-> 0, calls |-> << >>]
    /\ rq = NewRequestQueue
    /\ mf = NoManualFlush

\* the state after construction, the request queue not enabled
Init == ClientInit /\ StoreInit /\ ~qts.queueEnabled

\* the state after construction with a client configured without startup
\* delay and readiness check
InitStore == Init /\ cfg = [startupDelay |-> FALSE, readinessCheck |-> FALSE]

\* the same, with the request queue enabled or not
InitLifecycle ==
    /\ ClientInit
    /\ StoreInit
    /\ cfg = [startupDelay |-> FALSE, readinessCheck |-> FALSE]

(***************************************************************************)
(* HybridStore: producers.                                                 *)
(***************************************************************************)
\* HybridStore.UpdateMetrics: update the cache, try to enqueue << data >>
\* without blocking (a full queue only logs a warning), count the request
UpdateMetrics(switchID, data) ==
    /\ cache' = CacheUpdateMetrics(cache, switchID, data)
    /\ lastUpdated' = StampUpdated(lastUpdated, {switchID})
    /\ IF Len(flushQueue) < FlushQueueCap
       THEN /\ flushQueue' = Append(flushQueue, NextBid)
            /\ batches' = [batches EXCEPT ![NextBid] = << data >>]
            /\ accepted' = IF hsCtx # "cancelled"
                           THEN accepted \cup {NextBid} ELSE accepted
            /\ hsStats' = [hsStats EXCEPT !.pendingFlushItems = @ + 1,
                                          !.totalRequests = @ + 1]
       ELSE /\ hsStats' = [hsStats EXCEPT !.totalRequests = @ + 1]
            /\ UNCHANGED << flushQueue, batches, accepted >>

\* a call of HybridStore.UpdateMetrics
StoreUpdateMetrics ==
    /\ lastOp.seq < MaxOps
    /\ \E data \in UpdateInputs :
         /\ UpdateMetrics(data.switch_id, data)
         /\ lastOp' = [seq |-> lastOp.seq + 1, name |-> "UpdateMetrics",
                       arg |-> << data >>, ret |-> "ok"]
    /\ UNCHANGED << hsCtx, flushCtx, fwPc, wr, hsStopPc, repoClosed, repoRows,
                    finished, warned, drainFailed >>
    /\ UNCHANGED << clientVars, svcVars, appVars, readVars, lockVars, lifeVars >>

\* telemetryService.IngestMetrics(data): refuse an empty switch id, else
\* store.UpdateMetrics
ServiceIngestMetrics(data) ==
    /\ IF data.switch_id = ""
       THEN /\ lastOp' = [seq |-> lastOp.seq + 1, name |-> "IngestMetrics",
                          arg |-> << data >>, ret |-> "empty_switch_id"]
            /\ UNCHANGED << cache, lastUpdated, flushQueue, batches,
                            accepted, hsStats >>
       ELSE /\ UpdateMetrics(data.switch_id, data)
            /\ lastOp' = [seq |-> lastOp.seq + 1, name |-> "IngestMetrics",
                          arg |-> << data >>, ret |-> "ok"]
    /\ UNCHANGED << hsCtx, flushCtx, fwPc, wr, hsStopPc, repoClosed, repoRows,
                    finished, warned, drainFailed >>
    /\ UNCHANGED << clientVars, svcVars, appVars, readVars, lockVars, lifeVars >>

\* a call of telemetryService.IngestMetrics
IngestMetrics ==
    /\ lastOp.seq < MaxIngests
    /\ \E data \in IngestInputs : ServiceIngestMetrics(data)

\* a call of telemetryService.IngestMetrics made while queries are served
QueryIngestMetrics ==
    /\ lastOp.seq < MaxOps
    /\ \E data \in QueryIngestInputs : ServiceIngestMetrics(data)

\* HybridStore.UpdateBatch(m): update the cache, build the slice, try to
\* enqueue it without blocking, count the request
HybridStoreUpdateBatch(m) ==
    /\ \E metrics \in MapSlices(m) :
         /\ cache' = CacheUpdateBatch(cache, m)
         /\ lastUpdated' = StampUpdated(lastUpdated, DOMAIN m)
         /\ IF Len(flushQueue) < FlushQueueCap
            THEN /\ flushQueue' = Append(flushQueue, NextBid)
                 /\ batches' = [batches EXCEPT ![NextBid] = metrics]
                 /\ accepted' = IF hsCtx # "cancelled"
                                THEN accepted \cup {NextBid} ELSE accepted
                 /\ hsStats' = [hsStats EXCEPT
                                  !.pendingFlushItems = @ + Len(metrics),
                                  !.totalRequests = @ + 1]
            ELSE /\ hsStats' = [hsStats EXCEPT !.totalRequests = @ + 1]
                 /\ UNCHANGED << flushQueue, batches, accepted >>
         /\ lastOp' = [seq |-> lastOp.seq + 1, name |-> "UpdateBatch",
                       arg |-> metrics, ret |-> "ok"]
    /\ UNCHANGED << hsCtx, flushCtx, fwPc, wr, hsStopPc, repoClosed, repoRows,
                    finished, warned, drainFailed >>
    /\ UNCHANGED << clientVars, svcVars, appVars, readVars, lockVars, lifeVars >>

\* a call of HybridStore.UpdateBatch
UpdateBatch ==
    /\ lastOp.seq < MaxOps
    /\ \E m \in BatchInputs : HybridStoreUpdateBatch(m)

\* HybridStore.StoreMetricsBulk(ctx, metrics), metrics not empty, up to its
\* call of writeToDatabase: update the cache with the last record per switch
\* id, start writing all the records under ctx
StoreMetricsBulk(ctx, metrics) ==
    /\ cache' = CacheUpdateBatch(cache, LastPerSwitch(metrics))
    /\ lastUpdated' = StampUpdated(lastUpdated, DOMAIN LastPerSwitch(metrics))
    /\ batches' = [batches EXCEPT ![NextBid] = metrics]
    /\ wr' = [wr EXCEPT !["bulk"] = NewWriter(NextBid, ctx)]

\* telemetryService.IngestBatch, up to the call of writeToDatabase inside
\* StoreMetricsBulk: drop the records without a switch id, update the cache
\* with the last record per switch, start writing under context.Background()
IngestBatch ==
    /\ lastOp.seq < MaxBulkOps
    /\ wr["bulk"].pc = "idle"
    /\ \E data \in BulkInputs :
         IF IngestBatchResult(data, TRUE) # "ok" \/ Len(data) = 0
         THEN /\ lastOp' = [seq |-> lastOp.seq + 1, name |-> "IngestBatch",
                            arg |-> data,
                            ret |-> IngestBatchResult(data, TRUE)]
              /\ UNCHANGED << cache, lastUpdated, batches, wr >>
         ELSE /\ StoreMetricsBulk("background", ValidData(data))
              /\ lastOp' = [seq |-> lastOp.seq + 1, name |-> "IngestBatch",
                            arg |-> data, ret |-> "pending"]
    /\ UNCHANGED << flushQueue, hsCtx, flushCtx, hsStats, fwPc, hsStopPc,
                    repoClosed, repoRows, finished, warned, drainFailed,
                    accepted >>
    /\ UNCHANGED << clientVars, svcVars, appVars, readVars, lockVars, lifeVars >>

\* a call of HybridStore.UpdateMetrics with any switch id: the cache refuses
\* the empty one and the store returns its error before the queue is touched
WriteUpdateMetrics ==
    /\ lastOp.seq < MaxOps
    /\ \E in \in WriteUpdateInputs :
         IF in[1] = ""
         THEN /\ lastOp' = [seq |-> lastOp.seq + 1, name |-> "UpdateMetrics",
                            arg |-> << in[2] >>, ret |-> "cache_error"]
              /\ UNCHANGED << cache, lastUpdated, flushQueue, batches,
                              accepted, hsStats >>
         ELSE /\ UpdateMetrics(in[1], in[2])
              /\ lastOp' = [seq |-> lastOp.seq + 1, name |-> "UpdateMetrics",
                            arg |-> << in[2] >>, ret |-> "ok"]
    /\ UNCHANGED << hsCtx, flushCtx, fwPc, wr, hsStopPc, repoClosed, repoRows,
                    finished, warned, drainFailed >>
    /\ UNCHANGED << clientVars, svcVars, appVars, readVars, lockVars, lifeVars >>

\* a call of HybridStore.UpdateBatch with any map
WriteUpdateBatch ==
    /\ lastOp.seq < MaxOps
    /\ \E m \in WriteBatchInputs : HybridStoreUpdateBatch(m)

\* a call of HybridStore.StoreMetricsBulk with any slice, up to its call of
\* writeToDatabase
WriteStoreMetricsBulk ==
    /\ lastOp.seq < MaxBulkOps
    /\ wr["bulk"].pc = "idle"
    /\ \E metrics \in WriteBulkInputs :
         /\ StoreMetricsBulk("background", metrics)
         /\ lastOp' = [seq |-> lastOp.seq + 1, name |-> "StoreMetricsBulk",
                       arg |-> metrics, ret |-> "pending"]
    /\ UNCHANGED << flushQueue, hsCtx, flushCtx, hsStats, fwPc, hsStopPc,
                    repoClosed, repoRows, finished, warned, drainFailed,
                    accepted >>
    /\ UNCHANGED << clientVars, svcVars, appVars, readVars, lockVars, lifeVars >>

(***************************************************************************)
(* Queries.  HybridStore counts every query it serves in totalRequests.    *)
(***************************************************************************)
\* telemetryService.GetMetric, what it returns: refuse an empty switch id;
\* ask the store for the value; stamp the response with store.GetLastUpdate,
\* or with time.Now() when that is the zero time
ServiceGetMetric(switchID, metricType) ==
    IF switchID = ""
    THEN [NoRead EXCEPT !.name = "GetMetric",
                        !.metric = metricType,
                        !.ret = "empty_switch_id"]
    ELSE LET got == CacheGetMetric(cache, switchID, metricType)
             lastUpdate == GetLastUpdate(lastUpdated, switchID)
         IN  IF got.err # ""
             THEN [NoRead EXCEPT !.name = "GetMetric",
                                 !.switch_id = switchID,
                                 !.metric = metricType,
                                 !.ret = "store_error"]
             ELSE [NoRead EXCEPT !.name = "GetMetric",
                                 !.switch_id = switchID,
                                 !.metric = metricType,
                                 !.ret = "ok",
                                 !.value = got.value,
                                 !.timestamp = IF lastUpdate = 0 THEN now
                                               ELSE lastUpdate]

\* a call of telemetryService.GetMetric; HybridStore.GetMetric counts the
\* request
GetMetric ==
    /\ lastRead.seq < MaxReads
    /\ \E switchID \in SwitchIDs \cup {""}, metricType \in QueryMetricTypes :
         /\ lastRead' = [ServiceGetMetric(switchID, metricType)
                           EXCEPT !.seq = lastRead.seq + 1]
         /\ hsStats' = IF switchID = "" THEN hsStats
                       ELSE [hsStats EXCEPT !.totalRequests = @ + 1]
    /\ UNCHANGED << cache, lastUpdated, flushQueue, hsCtx, flushCtx, fwPc, wr,
                    hsStopPc, repoClosed, repoRows, finished, warned,
                    drainFailed, accepted, batches, lastOp, now >>
    /\ UNCHANGED << clientVars, svcVars, appVars, lockVars, lifeVars >>

\* telemetryService.GetSwitchMetrics: refuse an empty switch id; ask the
\* store for a copy of the record; stamp the response with data.Timestamp
GetSwitchMetrics ==
    /\ lastRead.seq < MaxReads
    /\ \E switchID \in SwitchIDs \cup {""} :
         IF switchID = ""
         THEN /\ lastRead' = [NoRead EXCEPT !.seq = lastRead.seq + 1,
                                            !.name = "GetSwitchMetrics",
                                            !.ret = "empty_switch_id"]
              /\ UNCHANGED hsStats
         ELSE /\ hsStats' = [hsStats EXCEPT !.totalRequests = @ + 1]
              /\ lastRead' =
                   IF cache[switchID] = NoData
                   THEN [NoRead EXCEPT !.seq = lastRead.seq + 1,
                                       !.name = "GetSwitchMetrics",
                                       !.switch_id = switchID,
                                       !.ret = "store_error"]
                   ELSE [NoRead EXCEPT !.seq = lastRead.seq + 1,
                                       !.name = "GetSwitchMetrics",
                                       !.switch_id = switchID,
                                       !.ret = "ok",
                                       !.data = cache[switchID],
                                       !.timestamp = cache[switchID].timestamp]
    /\ UNCHANGED << cache, lastUpdated, flushQueue, hsCtx, flushCtx, fwPc, wr,
                    hsStopPc, repoClosed, repoRows, finished, warned,
                    drainFailed, accepted, batches, lastOp, now >>
    /\ UNCHANGED << clientVars, svcVars, appVars, lockVars, lifeVars >>

\* the metric type strings a request path may carry
PathMetricTypes == QueryMetricTypes \cup {""}

\* a validation that lets every metric type through
isValidMetricTypeAny(metricType) == TRUE

\* telemetryHandler.isValidMetricType: one of the five tokens
isValidMetricType(metricType) == metricType \in MetricTypes

\* telemetryHandler.GetMetric, GET /telemetry/metrics/:switchId/:metricType:
\* 400 for an empty parameter or an unknown metric type, else the service's
\* GetMetric; 404 when that fails, else 200 with the response
HttpGetMetric ==
    /\ lastRead.seq < MaxReads
    /\ \E switchID \in SwitchIDs \cup {""}, metricTypeStr \in PathMetricTypes :
         LET RespondWithError(status, message) ==
                 [NoRead EXCEPT !.seq = lastRead.seq + 1,
                                !.name = "HTTP GetMetric",
                                !.switch_id = switchID,
                                !.metric = metricTypeStr,
                                !.status = status,
                                !.success = FALSE,
                                !.error = message]
             response == ServiceGetMetric(switchID, metricTypeStr)
         IN  IF switchID = ""
             THEN /\ lastRead' = RespondWithError(400, "switchId is required")
                  /\ UNCHANGED hsStats
             ELSE IF metricTypeStr = ""
             THEN /\ lastRead' =
                       RespondWithError(400, "metricType is required")
                  /\ UNCHANGED hsStats
             ELSE IF ~isValidMetricType(metricTypeStr)
             THEN /\ lastRead' = RespondWithError(400, "invalid metric type")
                  /\ UNCHANGED hsStats
             ELSE /\ hsStats' = [hsStats EXCEPT !.totalRequests = @ + 1]
                  /\ lastRead' =
                       IF response.ret # "ok"
                       THEN RespondWithError(404, "metric not found")
                       ELSE [response EXCEPT !.seq = lastRead.seq + 1,
                                             !.name = "HTTP GetMetric",
                                             !.status = 200,
                                             !.success = TRUE]
    /\ UNCHANGED << cache, lastUpdated, flushQueue, hsCtx, flushCtx, fwPc, wr,
                    hsStopPc, repoClosed, repoRows, finished, warned,
                    drainFailed, accepted, batches, lastOp, now >>
    /\ UNCHANGED << clientVars, svcVars, appVars, lockVars, lifeVars >>

\* the switches the cache holds a record of
CachedSwitches(c) == { sw \in SwitchIDs : c[sw] # NoData }

RECURSIVE TotalAge(_, _)
\* GetPerformanceMetrics: totalAge, the sum of time.Since(data.Timestamp)
\* over the switches S
TotalAge(c, S) ==
    IF S = {} THEN 0
    ELSE LET sw == CHOOSE x \in S : TRUE
         IN  (now - c[sw].timestamp) + TotalAge(c, S \ {sw})

\* GetPerformanceMetrics' DataAgeSeconds, totalAge / len(switches) or 0 for
\* no switch, is greater than limit
DataAgeExceeds(c, limit) ==
    /\ CachedSwitches(c) # {}
    /\ TotalAge(c, CachedSwitches(c)) > limit * Cardinality(CachedSwitches(c))

\* a switch count that is never taken for zero
NoSwitchesNever(switchCount) == FALSE

\* GetHealthStatus' test switchCount == 0
NoSwitches(switchCount) == switchCount = 0

\* telemetryService.GetHealthStatus: the status it reports
ServiceGetHealthStatus(c) ==
    IF \/ DataAgeExceeds(c, DataAgeLimit)
       \/ NoSwitches(Cardinality(CachedSwitches(c)))
    THEN "degraded"
    ELSE "healthy"

\* telemetryHandler.GetHealthStatus, GET /telemetry/health: 200 when the
\* service's status is healthy, else 503; the store's request counter is
\* not touched
HttpGetHealthStatus ==
    /\ lastRead.seq < MaxReads
    /\ lastRead' = [NoRead EXCEPT
                      !.seq = lastRead.seq + 1,
                      !.name = "HTTP GetHealthStatus",
                      !.ret = ServiceGetHealthStatus(cache),
                      !.status = IF ServiceGetHealthStatus(cache) # "healthy"
                                 THEN 503 ELSE 200]
    /\ UNCHANGED << cache, lastUpdated, flushQueue, hsCtx, flushCtx, hsStats,
                    fwPc, wr, hsStopPc, repoClosed, repoRows, finished,
                    warned, drainFailed, accepted, batches, lastOp, now >>
    /\ UNCHANGED << clientVars, svcVars, appVars, lockVars, lifeVars >>

\* a long time passes without the clock being looked at: as long as the
\* data age limit
ClockLeap ==
    /\ now <= MaxClock
    /\ now' = now + DataAgeLimit
    /\ UNCHANGED << cache, lastUpdated, flushQueue, hsCtx, flushCtx, hsStats,
                    fwPc, wr, hsStopPc, repoClosed, repoRows, finished,
                    warned, drainFailed, accepted, batches, lastOp, lastRead >>
    /\ UNCHANGED << clientVars, svcVars, appVars, lockVars, lifeVars >>

\* time passes
ClockTick ==
    /\ now < MaxClock
    /\ now' = now + 1
    /\ UNCHANGED << cache, lastUpdated, flushQueue, hsCtx, flushCtx, hsStats,
                    fwPc, wr, hsStopPc, repoClosed, repoRows, finished,
                    warned, drainFailed, accepted, batches, lastOp, lastRead >>
    /\ UNCHANGED << clientVars, svcVars, appVars, lockVars, lifeVars >>

(***************************************************************************)
(* InMemoryCache, statement by statement: one goroutine inside a write     *)
(* method and one inside a read method, both under c.mu (sync.RWMutex).    *)
(***************************************************************************)
\* c.mu.Lock() can be taken: nobody holds the mutex
MuLockFree(mu) == ~mu.writer /\ mu.readers = 0

\* an RLock that never waits
MuRLockFreeAlways(mu) == TRUE

\* c.mu.RLock() can be taken: no writer holds the mutex
MuRLockFree(mu) == ~mu.writer

\* what a read of c.data[sw] copies when it races with the store of new
\* into the same slot: a data race, so any mix of the fields of the old
\* and of the new record
RacyRead(old, new) ==
    IF old = NoData THEN {NoData, new}
    ELSE { [f \in DOMAIN new |-> IF f \in S THEN new[f] ELSE old[f]] :
             S \in SUBSET (DOMAIN new) }

\* what the reader copies from slot sw
SlotRead(sw) ==
    IF cacheWriter.pc = "storing" /\ cacheWriter.sw = sw
    THEN RacyRead(cache[sw], StoredCopy(sw, cacheWriter.m[sw]))
    ELSE {cache[sw]}

\* UpdateMetrics, UpdateBatch: c.mu.Lock()
CacheWrLock ==
    /\ cacheWriter.pc = "idle"
    /\ cacheWriter.calls < MaxCacheWrites
    /\ MuLockFree(cacheMu)
    /\ \E m \in CacheWriteInputs :
         cacheWriter' = [pc |-> "locked", m |-> m, todo |-> DOMAIN m,
                         sw |-> "", calls |-> cacheWriter.calls + 1]
    /\ cacheMu' = [cacheMu EXCEPT !.writer = TRUE]
    /\ UNCHANGED << cache, lastUpdated, flushQueue, hsCtx, flushCtx, hsStats,
                    fwPc, wr, hsStopPc, repoClosed, repoRows, finished,
                    warned, drainFailed, accepted, batches, lastOp,
                    cacheReader, written >>
    /\ UNCHANGED << clientVars, svcVars, appVars, readVars, lifeVars, cacheStats >>

\* the writer builds dataCopy for the next switch id of its map (in any
\* order of the iteration) and begins c.data[switchID] = &dataCopy
CacheWrStoreBegin ==
    /\ cacheWriter.pc = "locked"
    /\ \E sw \in cacheWriter.todo :
         /\ cacheWriter' = [cacheWriter EXCEPT !.pc = "storing", !.sw = sw,
                                               !.todo = @ \ {sw}]
         /\ written' = written \cup {StoredCopy(sw, cacheWriter.m[sw])}
    /\ UNCHANGED << cache, lastUpdated, flushQueue, hsCtx, flushCtx, hsStats,
                    fwPc, wr, hsStopPc, repoClosed, repoRows, finished,
                    warned, drainFailed, accepted, batches, lastOp,
                    cacheMu, cacheReader >>
    /\ UNCHANGED << clientVars, svcVars, appVars, readVars, lifeVars, cacheStats >>

\* the store into c.data and c.lastUpdated is done
CacheWrStoreEnd ==
    /\ cacheWriter.pc = "storing"
    /\ cache' = CacheUpdateMetrics(cache, cacheWriter.sw,
                                   cacheWriter.m[cacheWriter.sw])
    /\ lastUpdated' = StampUpdated(lastUpdated, {cacheWriter.sw})
    /\ cacheWriter' = [cacheWriter EXCEPT !.pc = "locked"]
    /\ UNCHANGED << flushQueue, hsCtx, flushCtx, hsStats,
                    fwPc, wr, hsStopPc, repoClosed, repoRows, finished,
                    warned, drainFailed, accepted, batches, lastOp,
                    cacheMu, cacheReader, written >>
    /\ UNCHANGED << clientVars, svcVars, appVars, readVars, lifeVars, cacheStats >>

\* the write method returns: the deferred c.mu.Unlock()
CacheWrUnlock ==
    /\ cacheWriter.pc = "locked"
    /\ cacheWriter.todo = {}
    /\ cacheWriter' = [IdleCacheWriter EXCEPT !.calls = cacheWriter.calls]
    /\ cacheMu' = [cacheMu EXCEPT !.writer = FALSE]
    /\ UNCHANGED << cache, lastUpdated, flushQueue, hsCtx, flushCtx, hsStats,
                    fwPc, wr, hsStopPc, repoClosed, repoRows, finished,
                    warned, drainFailed, accepted, batches, lastOp,
                    cacheReader, written >>
    /\ UNCHANGED << clientVars, svcVars, appVars, readVars, lifeVars, cacheStats >>

\* GetAllMetrics(sw), ListAllSwitches, GetSnapshot: c.mu.RLock();
\* the first two count the request
CacheRdLock ==
    /\ cacheReader.pc \in {"idle", "returned"}
    /\ MuRLockFree(cacheMu)
    /\ \E kind \in CacheReadKinds, sw \in SwitchIDs :
         /\ kind # "GetSnapshot" => cacheReader.requestCount < MaxReads
         /\ cacheReader' =
              [pc |-> "locked", kind |-> kind,
               todo |-> IF kind = "GetAllMetrics" THEN {sw} ELSE SwitchIDs,
               out |-> [x \in SwitchIDs |-> NoData],
               requestCount |-> IF kind = "GetSnapshot"
                                THEN cacheReader.requestCount
                                ELSE cacheReader.requestCount + 1]
    /\ cacheMu' = [cacheMu EXCEPT !.readers = @ + 1]
    /\ UNCHANGED << cache, lastUpdated, flushQueue, hsCtx, flushCtx, hsStats,
                    fwPc, wr, hsStopPc, repoClosed, repoRows, finished,
                    warned, drainFailed, accepted, batches, lastOp,
                    cacheWriter, written >>
    /\ UNCHANGED << clientVars, svcVars, appVars, readVars, lifeVars, cacheStats >>

\* dataCopy := *data for the next switch id (in any order of the iteration)
CacheRdCopy ==
    /\ cacheReader.pc = "locked"
    /\ \E sw \in cacheReader.todo : \E v \in SlotRead(sw) :
         cacheReader' = [cacheReader EXCEPT !.todo = @ \ {sw},
                                           !.out[sw] = v]
    /\ UNCHANGED << cache, lastUpdated, flushQueue, hsCtx, flushCtx, hsStats,
                    fwPc, wr, hsStopPc, repoClosed, repoRows, finished,
                    warned, drainFailed, accepted, batches, lastOp,
                    cacheMu, cacheWriter, written >>
    /\ UNCHANGED << clientVars, svcVars, appVars, readVars, lifeVars, cacheStats >>

\* the read method returns its copies: the deferred c.mu.RUnlock()
CacheRdUnlock ==
    /\ cacheReader.pc = "locked"
    /\ cacheReader.todo = {}
    /\ cacheReader' = [cacheReader EXCEPT !.pc = "returned"]
    /\ cacheMu' = [cacheMu EXCEPT !.readers = @ - 1]
    /\ UNCHANGED << cache, lastUpdated, flushQueue, hsCtx, flushCtx, hsStats,
                    fwPc, wr, hsStopPc, repoClosed, repoRows, finished,
                    warned, drainFailed, accepted, batches, lastOp,
                    cacheWriter, written >>
    /\ UNCHANGED << clientVars, svcVars, appVars, readVars, lifeVars, cacheStats >>

(***************************************************************************)
(* The counters of the cache.  GetMetric, GetAllMetrics and                *)
(* ListAllSwitches run c.requestCount++ and c.hitCount++ holding only the  *)
(* read lock, which any number of goroutines hold together: the two        *)
(* increments are plain loads and stores of the int64 fields.              *)
(***************************************************************************)
StatReadKinds == {"GetMetric", "GetAllMetrics", "ListAllSwitches"}

\* does the call find what it looks for: data, exists := c.data[switchID],
\* or len(result) > 0
StatHit(c, kind, sw) ==
    IF kind = "ListAllSwitches"
    THEN \E x \in SwitchIDs : c[x] # NoData
    ELSE c[sw] # NoData

\* a counted read method begins: c.mu.RLock()
StatRLock(r) ==
    /\ cacheStats.g[r].pc = "idle"
    /\ cacheStats.calls < MaxStatCalls
    /\ MuRLockFree(cacheMu)
    /\ \E kind \in StatReadKinds, sw \in SwitchIDs :
         cacheStats' = [cacheStats EXCEPT
                          !.calls = @ + 1,
                          !.g[r] = [pc |-> "locked", kind |-> kind,
                                    sw |-> IF kind = "ListAllSwitches"
                                           THEN "" ELSE sw,
                                    tmp |-> 0]]
    /\ cacheMu' = [cacheMu EXCEPT !.readers = @ + 1]
    /\ UNCHANGED << cache, lastUpdated, lastOp, queueVars, cacheWriter,
                    cacheReader, written >>
    /\ UNCHANGED << clientVars, svcVars, appVars, readVars, lifeVars >>

\* c.requestCount++, its load
StatRequestLoad(r) ==
    /\ cacheStats.g[r].pc = "locked"
    /\ cacheStats' = [cacheStats EXCEPT !.g[r].pc = "requestLoaded",
                                        !.g[r].tmp = cacheStats.requestCount]
    /\ UNCHANGED << cache, lastUpdated, lastOp, queueVars, cacheMu,
                    cacheWriter, cacheReader, written >>
    /\ UNCHANGED << clientVars, svcVars, appVars, readVars, lifeVars >>

\* c.requestCount++, its store; then the lookup in c.data, which sends the
\* call to c.hitCount++ or to its return
StatRequestStore(r) ==
    /\ cacheStats.g[r].pc = "requestLoaded"
    /\ cacheStats' = [cacheStats EXCEPT
                        !.requestCount = cacheStats.g[r].tmp + 1,
                        !.g[r].pc = IF StatHit(cache, cacheStats.g[r].kind,
                                               cacheStats.g[r].sw)
                                    THEN "found" ELSE "done"]
    /\ UNCHANGED << cache, lastUpdated, lastOp, queueVars, cacheMu,
                    cacheWriter, cacheReader, written >>
    /\ UNCHANGED << clientVars, svcVars, appVars, readVars, lifeVars >>

\* c.hitCount++, its load
StatHitLoad(r) ==
    /\ cacheStats.g[r].pc = "found"
    /\ cacheStats' = [cacheStats EXCEPT !.g[r].pc = "hitLoaded",
                                        !.g[r].tmp = cacheStats.hitCount]
    /\ UNCHANGED << cache, lastUpdated, lastOp, queueVars, cacheMu,
                    cacheWriter, cacheReader, written >>
    /\ UNCHANGED << clientVars, svcVars, appVars, readVars, lifeVars >>

\* c.hitCount++, its store
StatHitStore(r) ==
    /\ cacheStats.g[r].pc = "hitLoaded"
    /\ cacheStats' = [cacheStats EXCEPT
                        !.hitCount = cacheStats.g[r].tmp + 1,
                        !.g[r].pc = "done"]
    /\ UNCHANGED << cache, lastUpdated, lastOp, queueVars, cacheMu,
                    cacheWriter, cacheReader, written >>
    /\ UNCHANGED << clientVars, svcVars, appVars, readVars, lifeVars >>

\* the method returns: the deferred c.mu.RUnlock()
StatRUnlock(r) ==
    /\ cacheStats.g[r].pc = "done"
    /\ cacheStats' = [cacheStats EXCEPT !.g[r] = IdleStatReader]
    /\ cacheMu' = [cacheMu EXCEPT !.readers = @ - 1]
    /\ UNCHANGED << cache, lastUpdated, lastOp, queueVars, cacheWriter,
                    cacheReader, written >>
    /\ UNCHANGED << clientVars, svcVars, appVars, readVars, lifeVars >>

(***************************************************************************)
(* InMemoryCache, call by call: each method runs under c.mu from its first *)
(* statement to its return.  lastOp keeps the call: for a write the map    *)
(* written (for UpdateMetrics the map of its one key), for CleanupStale    *)
(* its max_age and the count it returned.                                  *)
(***************************************************************************)
\* InMemoryCache.UpdateMetrics(switchID, data)
CacheCallUpdateMetrics ==
    /\ lastOp.seq < MaxCacheOps
    /\ MuLockFree(cacheMu)
    /\ \E in \in CacheUpdateInputs :
         IF in[1] = ""
         THEN /\ lastOp' = [seq |-> lastOp.seq + 1,
                            name |-> "Cache.UpdateMetrics",
                            arg |-> [sw \in {in[1]} |-> in[2]],
                            ret |-> "empty_switch_id"]
              /\ UNCHANGED << cache, lastUpdated, written >>
         ELSE /\ cache' = CacheUpdateMetrics(cache, in[1], in[2])
              /\ lastUpdated' = StampUpdated(lastUpdated, {in[1]})
              /\ written' = written \cup {StoredCopy(in[1], in[2])}
              /\ lastOp' = [seq |-> lastOp.seq + 1,
                            name |-> "Cache.UpdateMetrics",
                            arg |-> [sw \in {in[1]} |-> in[2]],
                            ret |-> "ok"]
    /\ UNCHANGED << queueVars, cacheMu, cacheWriter, cacheReader >>
    /\ UNCHANGED << clientVars, svcVars, appVars, readVars, lifeVars, cacheStats >>

\* InMemoryCache.UpdateBatch(data)
CacheCallUpdateBatch ==
    /\ lastOp.seq < MaxCacheOps
    /\ MuLockFree(cacheMu)
    /\ \E m \in CacheBatchInputs :
         /\ cache' = CacheUpdateBatch(cache, m)
         /\ lastUpdated' = StampUpdated(lastUpdated, DOMAIN m)
         /\ written' = written \cup
                         {StoredCopy(sw, m[sw]) : sw \in DOMAIN m \ {""}}
         /\ lastOp' = [seq |-> lastOp.seq + 1, name |-> "Cache.UpdateBatch",
                       arg |-> m, ret |-> "ok"]
    /\ UNCHANGED << queueVars, cacheMu, cacheWriter, cacheReader >>
    /\ UNCHANGED << clientVars, svcVars, appVars, readVars, lifeVars, cacheStats >>

\* InMemoryCache.CleanupStale(maxAge), as the cleanup worker or anyone calls
\* it: delete the stale keys from c.data and c.lastUpdated, return their
\* number
CacheCallCleanupStale ==
    /\ lastOp.seq < MaxCacheOps
    /\ MuLockFree(cacheMu)
    /\ \E maxAge \in MaxAges :
         LET stale == StaleKeys(lastUpdated, now - maxAge)
         IN  /\ cache' = [sw \in SwitchIDs |->
                             IF sw \in stale THEN NoData ELSE cache[sw]]
             /\ lastUpdated' = [sw \in SwitchIDs |->
                                   IF sw \in stale THEN 0 ELSE lastUpdated[sw]]
             /\ lastOp' = [seq |-> lastOp.seq + 1, name |-> "CleanupStale",
                           arg |-> maxAge, ret |-> Cardinality(stale)]
    /\ UNCHANGED << queueVars, lockVars >>
    /\ UNCHANGED << clientVars, svcVars, appVars, readVars, lifeVars >>

\* InMemoryCache.Clear(): both maps are made anew and both counters are
\* set to zero
CacheCallClear ==
    /\ lastOp.seq < MaxCacheOps
    /\ MuLockFree(cacheMu)
    /\ cache' = [sw \in SwitchIDs |-> NoData]
    /\ lastUpdated' = [sw \in SwitchIDs |-> 0]
    /\ cacheStats' = [cacheStats EXCEPT !.requestCount = 0, !.hitCount = 0]
    /\ lastOp' = [seq |-> lastOp.seq + 1, name |-> "Clear", arg |-> << >>,
                  ret |-> "ok"]
    /\ UNCHANGED << queueVars, cacheMu, cacheWriter, cacheReader, written >>
    /\ UNCHANGED << clientVars, svcVars, appVars, readVars, lifeVars >>

(***************************************************************************)
(* HybridStore.writeToDatabase, run by writer w (the flush worker, or the  *)
(* caller of StoreMetricsBulk).                                            *)
(***************************************************************************)
\* writeToDatabase returns, after a last repository result f (the writer's
\* record with its counts brought up to date): the flush worker drops the
\* result in its normal branch and logs a failure in its drain branch;
\* StoreMetricsBulk hands the result to IngestBatch
WrReturn(w, f, result) ==
    /\ finished' = [finished EXCEPT ![w] =
                      [bid |-> f.bid, begun |-> f.begun,
                       transient |-> f.transient, clean |-> f.clean,
                       result |-> result]]
    /\ wr' = [wr EXCEPT ![w] = IdleWriter]
    /\ IF w = "flush"
       THEN /\ fwPc' = IF fwPc = "drain_writing" THEN "drain" ELSE "select"
            /\ drainFailed' = IF fwPc = "drain_writing" /\ result # "ok"
                              THEN drainFailed \cup {f.bid}
                              ELSE drainFailed
            /\ UNCHANGED lastOp
       ELSE /\ lastOp' = [lastOp EXCEPT !.ret = IF result = "ok" THEN "ok"
                                                 ELSE "store_error"]
            /\ UNCHANGED << fwPc, drainFailed >>

\* writeToDatabase after the repository call returned an error (f.err):
\* warn and back off when attempts remain, else count the error and give up
WrFailed(w, f) ==
    IF f.attempt < MaxRetries
    THEN /\ warned' = warned \cup {f.bid}
         /\ wr' = [wr EXCEPT ![w] = [f EXCEPT !.pc = "backoff"]]
         /\ UNCHANGED << hsStats, finished, fwPc, drainFailed, lastOp >>
    ELSE /\ hsStats' = [hsStats EXCEPT !.totalDBWriteErrors = @ + 1]
         /\ WrReturn(w, f, "exhausted")
         /\ UNCHANGED warned

\* the select on ctx.Done() at the head of the retry loop
WrCheck(w) ==
    /\ wr[w].pc = "check"
    /\ \/ /\ CtxDone(wr[w].ctx)
          /\ WrReturn(w, wr[w], "ctx")
       \/ /\ ~CtxDone(wr[w].ctx)
          /\ wr' = [wr EXCEPT ![w].pc = "call"]
          /\ UNCHANGED << finished, fwPc, drainFailed, lastOp >>
    /\ UNCHANGED << cache, lastUpdated, flushQueue, hsCtx, flushCtx, hsStats, hsStopPc,
                    repoClosed, repoRows, warned, accepted, batches >>
    /\ UNCHANGED << clientVars, svcVars, appVars, readVars, lockVars, lifeVars >>

\* the call of BulkStoreMetrics: BeginTx refuses a done context and a closed
\* database without touching the database, else a transaction begins
WrCall(w) ==
    /\ wr[w].pc = "call"
    /\ \/ /\ CtxDone(RepoCallCtx(wr[w].ctx)) \/ repoClosed
          /\ WrFailed(w, [wr[w] EXCEPT !.clean = FALSE,
                             !.err = IF CtxDone(RepoCallCtx(wr[w].ctx))
                                     THEN "ctx" ELSE "closed"])
       \/ /\ ~CtxDone(RepoCallCtx(wr[w].ctx)) /\ ~repoClosed
          /\ wr' = [wr EXCEPT ![w].pc = "io", ![w].begun = @ + 1]
          /\ UNCHANGED << hsStats, finished, fwPc, drainFailed, lastOp,
                          warned >>
    /\ UNCHANGED << cache, lastUpdated, flushQueue, hsCtx, flushCtx, hsStopPc, repoClosed,
                    repoRows, accepted, batches >>
    /\ UNCHANGED << clientVars, svcVars, appVars, readVars, lockVars, lifeVars >>

\* the transaction ends: committed, or failed with a transient error, a
\* fatal error or the context's error
WrIo(w) ==
    /\ wr[w].pc = "io"
    /\ \E o \in {"nil", "transient", "fatal", "ctx"} :
         /\ o = "ctx" => CtxDone(RepoCallCtx(wr[w].ctx))
         /\ IF o = "nil"
            THEN /\ repoRows' = BulkStoreMetrics(repoRows, wr[w].bid,
                                                 batches[wr[w].bid])
                 /\ hsStats' = [hsStats EXCEPT
                      !.totalDBWrites = @ + Len(batches[wr[w].bid]),
                      !.pendingFlushItems = @ - Len(batches[wr[w].bid])]
                 /\ WrReturn(w, [wr[w] EXCEPT !.err = "nil"], "ok")
                 /\ UNCHANGED warned
            ELSE /\ repoRows' = Rollback(repoRows, wr[w].bid,
                                         batches[wr[w].bid])
                 /\ WrFailed(w, [wr[w] EXCEPT
                       !.err = o,
                       !.transient = IF o = "transient" THEN @ + 1 ELSE @,
                       !.clean = IF o = "transient" THEN @ ELSE FALSE])
    /\ UNCHANGED << cache, lastUpdated, flushQueue, hsCtx, flushCtx, hsStopPc, repoClosed,
                    accepted, batches >>
    /\ UNCHANGED << clientVars, svcVars, appVars, readVars, lockVars, lifeVars >>

\* the backoff select: ctx.Done() or the timer, whichever is ready
WrBackoff(w) ==
    /\ wr[w].pc = "backoff"
    /\ \/ /\ CtxDone(wr[w].ctx)
          /\ WrReturn(w, wr[w], "ctx")
       \/ /\ wr' = [wr EXCEPT ![w].pc = "check", ![w].attempt = @ + 1]
          /\ UNCHANGED << finished, fwPc, drainFailed, lastOp >>
    /\ UNCHANGED << cache, lastUpdated, flushQueue, hsCtx, flushCtx, hsStats, hsStopPc,
                    repoClosed, repoRows, warned, accepted, batches >>
    /\ UNCHANGED << clientVars, svcVars, appVars, readVars, lockVars, lifeVars >>

(***************************************************************************)
(* HybridStore.writeToDatabase as a whole call, for any configured         *)
(* MaxRetries.  outcomes[k] is what the k-th turn of the retry loop meets: *)
(* "ctx", the context is done at the select at its head (or in the backoff *)
(* before it); "nil", the repository call succeeds; "err", it fails.       *)
(***************************************************************************)
RetryConfigs == 0 .. MaxRetryConfig

AttemptOutcomes == [1 .. MaxRetryConfig -> {"nil", "err", "ctx"}]

\* the retry loop from turn attempt on: how many repository calls were made
\* when it returns, and what it returns
writeToDatabase(maxRetries, attempt, outcomes) ==
    LET Loop[a \in 1 .. MaxRetryConfig + 1] ==
          IF a > maxRetries
          THEN [attempts |-> a - 1, result |-> "exhausted"]
          ELSE IF outcomes[a] = "ctx"
          THEN [attempts |-> a - 1, result |-> "ctx"]
          ELSE IF outcomes[a] = "nil"
          THEN [attempts |-> a, result |-> "ok"]
          ELSE Loop[a + 1]
    IN  Loop[attempt]

\* a call of writeToDatabase with a non-empty batch on a store configured
\* with maxRetries: the rows and the counters it leaves
WriteToDatabaseCall ==
    /\ lastOp.seq < MaxOps
    /\ \E maxRetries \in RetryConfigs, outcomes \in AttemptOutcomes,
          metrics \in WriteBulkInputs :
         LET r == writeToDatabase(maxRetries, 1, outcomes)
         IN  /\ batches' = [batches EXCEPT ![NextBid] = metrics]
             /\ repoRows' = IF r.result = "ok"
                            THEN BulkStoreMetrics(repoRows, NextBid, metrics)
                            ELSE repoRows
             /\ hsStats' =
                   [hsStats EXCEPT
                      !.totalDBWrites =
                         IF r.result = "ok" THEN @ + Len(metrics) ELSE @,
                      !.pendingFlushItems =
                         IF r.result = "ok" THEN @ - Len(metrics) ELSE @,
                      !.totalDBWriteErrors =
                         IF r.result = "exhausted" THEN @ + 1 ELSE @]
             /\ lastOp' = [seq |-> lastOp.seq + 1, name |-> "writeToDatabase",
                           arg |-> [maxRetries |-> maxRetries,
                                    outcomes |-> outcomes,
                                    metrics |-> metrics],
                           ret |-> r]
    /\ UNCHANGED << cache, lastUpdated, flushQueue, hsCtx, flushCtx, fwPc, wr,
                    hsStopPc, repoClosed, finished, warned, drainFailed,
                    accepted >>
    /\ UNCHANGED << clientVars, svcVars, appVars, readVars, lockVars, lifeVars >>

\* writeToDatabase called with any configured MaxRetries
SpecRetries == InitStore /\ [][WriteToDatabaseCall]_vars

\* Start's test hs.ctx != nil, only while the context is live
AlreadyStartedWhileLive(ctx) == ctx = "live"

\* Start's test hs.ctx != nil
AlreadyStarted(ctx) == ctx # "nil"

\* Start on the service (QueuedTelemetryService.Start, telemetryService.Start,
\* HybridStore.Start): refuse when hs.ctx is set; else create hs.ctx, launch
\* the workers and, when the request queue is enabled, its workers
HsStart ==
    /\ hsLife.startCalls < MaxStartCalls
    /\ IF AlreadyStarted(hsCtx)
       THEN /\ hsLife' = [hsLife EXCEPT !.startCalls = @ + 1,
                                        !.startRet = "already_started"]
            /\ UNCHANGED << hsCtx, fwPc, qts >>
       ELSE /\ hsCtx' = "live"
            /\ fwPc' = "select"
            /\ hsLife' = [hsLife EXCEPT !.startCalls = @ + 1,
                                        !.startRet = "nil",
                                        !.workers = @ + 1]
            /\ qts' = IF qts.queueEnabled
                      THEN [qts EXCEPT !.workers = @ + 1] ELSE qts
    /\ UNCHANGED << cache, lastUpdated, flushQueue, flushCtx, hsStats, wr,
                    hsStopPc, repoClosed, repoRows, finished, warned,
                    drainFailed, accepted, batches, lastOp >>
    /\ UNCHANGED << clientVars, svcVars, appVars, readVars, lockVars >>

\* Start, called once on a fresh store
HsFirstStart == hsCtx = "nil" /\ HsStart

\* QueuedTelemetryService.Stop with the queue enabled, RequestQueue.Stop:
\* cancel the queue's context and close the request channel, which panics
\* when the channel is closed already; then wait for the queue's workers
QtsStop ==
    /\ qts.queueEnabled
    /\ qts.pc \in {"idle", "returned"}
    /\ hsLife.stopCalls < MaxStopCalls
    /\ hsLife' = [hsLife EXCEPT !.stopCalls = @ + 1]
    /\ qts' = IF qts.chanClosed
              THEN [qts EXCEPT !.pc = "panicked", !.cancelled = TRUE]
              ELSE [qts EXCEPT !.pc = "queue_wait", !.cancelled = TRUE,
                               !.chanClosed = TRUE]
    /\ UNCHANGED << cache, lastUpdated, flushQueue, hsCtx, flushCtx, hsStats,
                    fwPc, wr, hsStopPc, repoClosed, repoRows, finished,
                    warned, drainFailed, accepted, batches, lastOp >>
    /\ UNCHANGED << clientVars, svcVars, appVars, readVars, lockVars >>

\* RequestQueue.worker: the request channel is closed or the context is
\* done, the worker returns
RqWorkerExit ==
    /\ qts.workers > 0
    /\ qts.chanClosed \/ qts.cancelled
    /\ qts' = [qts EXCEPT !.workers = @ - 1]
    /\ UNCHANGED << cache, lastUpdated, flushQueue, hsCtx, flushCtx, hsStats,
                    fwPc, wr, hsStopPc, repoClosed, repoRows, finished,
                    warned, drainFailed, accepted, batches, lastOp, hsLife >>
    /\ UNCHANGED << clientVars, svcVars, appVars, readVars, lockVars >>

\* RequestQueue.Stop returns after workerPool.Wait(); QueuedTelemetryService
\* goes on to baseService.Stop
RqStopReturn ==
    /\ qts.pc = "queue_wait"
    /\ qts.workers = 0
    /\ qts' = [qts EXCEPT !.pc = "base"]
    /\ UNCHANGED << cache, lastUpdated, flushQueue, hsCtx, flushCtx, hsStats,
                    fwPc, wr, hsStopPc, repoClosed, repoRows, finished,
                    warned, drainFailed, accepted, batches, lastOp, hsLife >>
    /\ UNCHANGED << clientVars, svcVars, appVars, readVars, lockVars >>

(***************************************************************************)
(* RequestQueue (models.go).  QueueGetMetric and QueueGetAllMetrics differ *)
(* only in the type of the value they hand back, so one caller stands for  *)
(* both.  A request is the pair of its caller and the number of the call;  *)
(* its response channel has room for the one response the worker sends.   *)
(***************************************************************************)
\* RequestQueue.Start: launch the workers
RqStart ==
    /\ ~rq.started
    /\ rq' = [rq EXCEPT !.started = TRUE,
                        !.worker = [w \in RqWorkers |->
                                      [pc |-> "select", req |-> << >>]]]
    /\ UNCHANGED << clientVars, switchRegs, mf >>
    /\ UNCHANGED << cache, lastUpdated, lastOp, queueVars >>
    /\ UNCHANGED << appVars, readVars, lockVars, lifeVars >>

\* QueueGetMetric begins: the response channel and the request are made
RqCallBegin(c) ==
    /\ rq.caller[c].pc \in {"idle", "done"}
    /\ rq.calls < MaxQueueCalls
    /\ rq' = [rq EXCEPT !.calls = @ + 1,
                        !.caller[c] = [pc |-> "send", req |-> rq.calls + 1,
                                       resp |-> FALSE, outcome |-> "none"]]
    /\ UNCHANGED << clientVars, switchRegs, mf >>
    /\ UNCHANGED << cache, lastUpdated, lastOp, queueVars >>
    /\ UNCHANGED << appVars, readVars, lockVars, lifeVars >>

\* QueueGetMetric, the first select: the send on rq.requestChan, or default
\* when the channel is full.  A send on a closed channel panics, in a
\* select too.
RqCallSend(c) ==
    /\ rq.caller[c].pc = "send"
    /\ IF rq.closed
       THEN rq' = [rq EXCEPT !.caller[c].pc = "panicked",
                             !.caller[c].outcome = "panic"]
       ELSE IF Len(rq.chan) < RqQueueSize
       THEN rq' = [rq EXCEPT !.chan = Append(@, << c, rq.caller[c].req >>),
                             !.queued = @ + 1,
                             !.caller[c].pc = "wait"]
       ELSE rq' = [rq EXCEPT !.dropped = @ + 1,
                             !.caller[c].pc = "done",
                             !.caller[c].outcome = "full"]
    /\ UNCHANGED << clientVars, switchRegs, mf >>
    /\ UNCHANGED << cache, lastUpdated, lastOp, queueVars >>
    /\ UNCHANGED << appVars, readVars, lockVars, lifeVars >>

\* QueueGetMetric, the second select: the response, the 5 s timer or
\* rq.ctx.Done(), whichever is ready
RqCallWait(c) ==
    /\ rq.caller[c].pc = "wait"
    /\ \E o \in {"result", "timeout", "shutdown"} :
         /\ o = "result" => rq.caller[c].resp
         /\ o = "shutdown" => rq.cancelled
         /\ rq' = [rq EXCEPT !.caller[c].pc = "done",
                             !.caller[c].outcome = o]
    /\ UNCHANGED << clientVars, switchRegs, mf >>
    /\ UNCHANGED << cache, lastUpdated, lastOp, queueVars >>
    /\ UNCHANGED << appVars, readVars, lockVars, lifeVars >>

\* worker, the select: receive a request (a closed channel still hands out
\* what it holds), return when the channel is closed and empty, or return
\* when the context is done
RqWorkerSelect(w) ==
    /\ rq.worker[w].pc = "select"
    /\ \/ /\ rq.chan # << >>
          /\ rq' = [rq EXCEPT !.chan = Tail(@),
                              !.worker[w] = [pc |-> "process",
                                             req |-> Head(rq.chan)]]
       \/ /\ rq.chan = << >> /\ rq.closed
          /\ rq' = [rq EXCEPT !.worker[w].pc = "exited"]
       \/ /\ rq.cancelled
          /\ rq' = [rq EXCEPT !.worker[w].pc = "exited"]
    /\ UNCHANGED << clientVars, switchRegs, mf >>
    /\ UNCHANGED << cache, lastUpdated, lastOp, queueVars >>
    /\ UNCHANGED << appVars, readVars, lockVars, lifeVars >>

\* worker, processRequest and incrementProcessedRequests: the handler's
\* result goes into the request's response channel, which the caller reads
\* if it is still waiting for this request
RqWorkerProcess(w) ==
    /\ rq.worker[w].pc = "process"
    /\ LET c == rq.worker[w].req[1]
           n == rq.worker[w].req[2]
       IN  rq' = [rq EXCEPT
                    !.caller[c].resp = IF rq.caller[c].req = n THEN TRUE
                                       ELSE @,
                    !.processed = @ + 1,
                    !.worker[w] = [pc |-> "select", req |-> << >>]]
    /\ UNCHANGED << clientVars, switchRegs, mf >>
    /\ UNCHANGED << cache, lastUpdated, lastOp, queueVars >>
    /\ UNCHANGED << appVars, readVars, lockVars, lifeVars >>

\* RequestQueue.Stop: rq.cancel()
RqStopCancel ==
    /\ rq.stop = "idle"
    /\ rq' = [rq EXCEPT !.cancelled = TRUE, !.stop = "cancelled"]
    /\ UNCHANGED << clientVars, switchRegs, mf >>
    /\ UNCHANGED << cache, lastUpdated, lastOp, queueVars >>
    /\ UNCHANGED << appVars, readVars, lockVars, lifeVars >>

\* RequestQueue.Stop: close(rq.requestChan)
RqStopClose ==
    /\ rq.stop = "cancelled"
    /\ rq' = [rq EXCEPT !.closed = TRUE, !.stop = "waiting"]
    /\ UNCHANGED << clientVars, switchRegs, mf >>
    /\ UNCHANGED << cache, lastUpdated, lastOp, queueVars >>
    /\ UNCHANGED << appVars, readVars, lockVars, lifeVars >>

\* RequestQueue.Stop: workerPool.Wait() returns, Stop returns
RqStopWait ==
    /\ rq.stop = "waiting"
    /\ \A w \in RqWorkers : rq.worker[w].pc \in {"none", "exited"}
    /\ rq' = [rq EXCEPT !.stop = "returned"]
    /\ UNCHANGED << clientVars, switchRegs, mf >>
    /\ UNCHANGED << cache, lastUpdated, lastOp, queueVars >>
    /\ UNCHANGED << appVars, readVars, lockVars, lifeVars >>

RequestQueueNext ==
    \/ RqStart \/ RqStopCancel \/ RqStopClose \/ RqStopWait
    \/ \E c \in RqCallers : RqCallBegin(c) \/ RqCallSend(c) \/ RqCallWait(c)
    \/ \E w \in RqWorkers : RqWorkerSelect(w) \/ RqWorkerProcess(w)

\* Stop returns ret to the service's caller; h is hsLife with the call
\* counted
StopReturned(h, ret) ==
    /\ hsLife' = [h EXCEPT !.stopRet = ret]
    /\ qts' = IF qts.pc = "base" THEN [qts EXCEPT !.pc = "returned"] ELSE qts

\* hsLife once this Stop call is counted: QtsStop has counted it already
\* when the queue is enabled
StopCounted ==
    IF qts.queueEnabled THEN hsLife
    ELSE [hsLife EXCEPT !.stopCalls = @ + 1]

\* HybridStore.Stop, called by telemetryService.Stop (directly, or as the
\* base service of QueuedTelemetryService.Stop): refuse when hs.cancel is
\* nil; else cancel hs.ctx and start waiting for the workers
HsStop ==
    /\ hsStopPc \in {"idle", "returned"}
    /\ IF qts.queueEnabled THEN qts.pc = "base"
       ELSE hsLife.stopCalls < MaxStopCalls
    /\ IF hsCtx = "nil"
       THEN /\ StopReturned(StopCounted, "not_started")
            /\ UNCHANGED << hsCtx, hsStopPc >>
       ELSE /\ hsCtx' = "cancelled"
            /\ hsStopPc' = "waiting"
            /\ hsLife' = StopCounted
            /\ UNCHANGED qts
    /\ UNCHANGED << cache, lastUpdated, flushQueue, flushCtx, hsStats, fwPc,
                    wr, repoClosed, repoRows, finished, warned, drainFailed,
                    accepted, batches, lastOp >>
    /\ UNCHANGED << clientVars, svcVars, appVars, readVars, lockVars >>

\* Stop, called once on a started store
HsFirstStop == hsCtx = "live" /\ hsStopPc = "idle" /\ HsStop

\* HybridStore.Stop, case <-done: the workers have exited; close the
\* repository, return nil
HsStopGraceful ==
    /\ hsStopPc = "waiting"
    /\ fwPc = "exited"
    /\ hsStopPc' = "returned"
    /\ repoClosed' = TRUE
    /\ StopReturned(hsLife, "nil")
    /\ UNCHANGED << cache, lastUpdated, flushQueue, hsCtx, flushCtx, hsStats,
                    fwPc, wr, repoRows, finished, warned, drainFailed,
                    accepted, batches, lastOp >>
    /\ UNCHANGED << clientVars, svcVars, appVars, readVars, lockVars >>

\* HybridStore.Stop, case <-ctx.Done(): the caller's deadline passes while
\* the flush worker waits on the database or on a backoff; close the
\* repository all the same, return ctx.Err()
HsStopTimeout ==
    /\ hsStopPc = "waiting"
    /\ wr["flush"].pc \in {"io", "backoff"}
    /\ hsStopPc' = "returned"
    /\ repoClosed' = TRUE
    /\ StopReturned(hsLife, "ctx")
    /\ UNCHANGED << cache, lastUpdated, flushQueue, hsCtx, flushCtx, hsStats,
                    fwPc, wr, repoRows, finished, warned, drainFailed,
                    accepted, batches, lastOp >>
    /\ UNCHANGED << clientVars, svcVars, appVars, readVars, lockVars >>

\* flushWorker, the outer select: hs.ctx.Done() starts the drain under a
\* fresh 3 s context; a batch in the queue is written under hs.ctx
FwSelect ==
    /\ fwPc = "select"
    /\ \/ /\ CtxDone("hs")
          /\ flushCtx' = "live"
          /\ fwPc' = "drain"
          /\ UNCHANGED << flushQueue, wr >>
       \/ /\ flushQueue # << >>
          /\ flushQueue' = Tail(flushQueue)
          /\ wr' = [wr EXCEPT !["flush"] = NewWriter(Head(flushQueue), "hs")]
          /\ fwPc' = "writing"
          /\ UNCHANGED flushCtx
    /\ UNCHANGED << cache, lastUpdated, hsCtx, hsStats, hsStopPc, repoClosed, repoRows,
                    finished, warned, drainFailed,
                    accepted, batches, lastOp >>
    /\ UNCHANGED << clientVars, svcVars, appVars, readVars, lockVars, lifeVars >>

\* flushWorker, the drain select: write the next batch under flushCtx, or
\* return when flushCtx is done, or (default) when the queue is empty
FwDrain ==
    /\ fwPc = "drain"
    /\ \/ /\ flushQueue # << >>
          /\ flushQueue' = Tail(flushQueue)
          /\ wr' = [wr EXCEPT !["flush"] = NewWriter(Head(flushQueue), "flush")]
          /\ fwPc' = "drain_writing"
       \/ /\ CtxDone("flush")
          /\ fwPc' = "exited"
          /\ UNCHANGED << flushQueue, wr >>
       \/ /\ flushQueue = << >> /\ ~CtxDone("flush")
          /\ fwPc' = "exited"
          /\ UNCHANGED << flushQueue, wr >>
    /\ UNCHANGED << cache, lastUpdated, hsCtx, flushCtx, hsStats, hsStopPc, repoClosed,
                    repoRows, finished, warned, drainFailed, accepted,
                    batches, lastOp >>
    /\ UNCHANGED << clientVars, svcVars, appVars, readVars, lockVars, lifeVars >>

\* the drain context's 3 s pass while the drain waits on the database or on
\* a backoff
FlushCtxExpire ==
    /\ flushCtx = "live"
    /\ fwPc = "drain_writing"
    /\ wr["flush"].pc \in {"io", "backoff"}
    /\ flushCtx' = "expired"
    /\ UNCHANGED << cache, lastUpdated, flushQueue, hsCtx, hsStats, fwPc, wr, hsStopPc,
                    repoClosed, repoRows, finished, warned, drainFailed,
                    accepted, batches, lastOp >>
    /\ UNCHANGED << clientVars, svcVars, appVars, readVars, lockVars, lifeVars >>

StoreNext ==
    \/ StoreUpdateMetrics \/ UpdateBatch
    \/ HsFirstStart \/ HsFirstStop \/ HsStopGraceful \/ HsStopTimeout
    \/ FwSelect \/ FwDrain \/ FlushCtxExpire
    \/ WrCheck("flush") \/ WrCall("flush") \/ WrIo("flush")
    \/ WrBackoff("flush")

\* the hybrid store with its queue, flush worker and repository
SpecStore == InitStore /\ [][StoreNext]_vars

\* the flush worker and the writer it runs are goroutines that run when
\* they can: a select with a ready case takes one, a repository call
\* returns, a backoff timer expires
FlushFairness ==
    /\ WF_vars(FwSelect) /\ WF_vars(FwDrain)
    /\ WF_vars(WrCheck("flush")) /\ WF_vars(WrCall("flush"))
    /\ WF_vars(WrIo("flush")) /\ WF_vars(WrBackoff("flush"))

FlushNext ==
    \/ StoreUpdateMetrics
    \/ HsFirstStart \/ HsFirstStop \/ HsStopGraceful \/ HsStopTimeout
    \/ FwSelect \/ FwDrain \/ FlushCtxExpire
    \/ WrCheck("flush") \/ WrCall("flush") \/ WrIo("flush")
    \/ WrBackoff("flush")

\* the hybrid store fed by UpdateMetrics, under a fair scheduler
SpecStoreFair == InitStore /\ [][FlushNext]_vars /\ FlushFairness

BulkNext ==
    \/ IngestBatch
    \/ WrCheck("bulk") \/ WrCall("bulk") \/ WrIo("bulk") \/ WrBackoff("bulk")

\* the service's single-record path: IngestMetrics in front of a store whose
\* flush worker has not taken anything yet
SpecService == InitStore /\ [][IngestMetrics]_vars

CacheNext ==
    \/ CacheWrLock \/ CacheWrStoreBegin \/ CacheWrStoreEnd \/ CacheWrUnlock
    \/ CacheRdLock \/ CacheRdCopy \/ CacheRdUnlock

\* the cache with one writing and one reading goroutine
SpecCache == InitStore /\ [][CacheNext]_vars

(***************************************************************************)
(* app.Start and app.Stop.  The steps that call into the telemetry service *)
(* and the generator client are those components' own actions, taken at    *)
(* the place app.go calls them.                                            *)
(***************************************************************************)
\* Stop goes on to its next step although the last one returned an error
ProceedOnlyAfterNil(ret) == ret = "nil"

\* Stop goes on to its next step once the last one has returned, whatever
\* it returned: an error is only logged
ProceedAfter(ret) == ret # "none"

\* what GeneratorClient.Stop has returned to app.Stop: nil after either
\* branch of its select
GcStopReturn == IF stopPc = "returned" THEN "nil" ELSE "none"

\* app.Start: TelemetryService.Start(a.ctx)
AppStartTelemetry ==
    /\ app.pc = "init"
    /\ hsLife.startCalls = 0
    /\ HsStart

\* app.Start: GeneratorClient.Start(a.ctx)
AppStartClient ==
    /\ app.pc = "init"
    /\ hsLife.startCalls = 1
    /\ GcStart

\* app.Start: HttpServer.Listen, go a.startHttpServer()
AppServe ==
    /\ app.pc = "init"
    /\ hsLife.startCalls = 1
    /\ gcCtx # "nil"
    /\ app' = [app EXCEPT !.pc = "running", !.http = "serving"]
    /\ UNCHANGED << cache, lastUpdated, flushQueue, hsCtx, flushCtx, hsStats,
                    fwPc, wr, hsStopPc, repoClosed, repoRows, finished,
                    warned, drainFailed, accepted, batches, lastOp >>
    /\ UNCHANGED << clientVars, svcVars, readVars, lockVars, lifeVars >>

\* app.Wait returns on a signal; app.Stop begins: the shutdown context
AppStop ==
    /\ app.pc = "running"
    /\ app' = [app EXCEPT !.pc = "stopping"]
    /\ UNCHANGED << cache, lastUpdated, flushQueue, hsCtx, flushCtx, hsStats,
                    fwPc, wr, hsStopPc, repoClosed, repoRows, finished,
                    warned, drainFailed, accepted, batches, lastOp >>
    /\ UNCHANGED << clientVars, svcVars, readVars, lockVars, lifeVars >>

\* app.Stop, step 1: GeneratorClient.Stop()
AppStopIngest ==
    /\ app.pc = "stopping"
    /\ GcStop

\* app.Stop, step 2: TelemetryService.Stop(ctx), after step 1 returned
AppDrain ==
    /\ app.pc = "stopping"
    /\ ProceedAfter(GcStopReturn)
    /\ hsLife.stopCalls = 0
    /\ HsStop

\* app.Stop, step 3, after step 2 returned: go HttpServer.GracefulStop,
\* closeServiceContext's goroutine, then awaitShutdown
AppStopServing ==
    /\ app.pc = "stopping"
    /\ hsLife.stopCalls = 1
    /\ hsStopPc # "waiting"
    /\ ProceedAfter(hsLife.stopRet)
    /\ app' = [app EXCEPT !.pc = "await", !.http = "stopping",
                          !.svcCtx = "waiting"]
    /\ UNCHANGED << cache, lastUpdated, flushQueue, hsCtx, flushCtx, hsStats,
                    fwPc, wr, hsStopPc, repoClosed, repoRows, finished,
                    warned, drainFailed, accepted, batches, lastOp >>
    /\ UNCHANGED << clientVars, svcVars, readVars, lockVars, lifeVars >>

\* server.GracefulStop: Shutdown(ctx) returns, wg.Done()
HttpGracefulStop ==
    /\ app.http = "stopping"
    /\ app' = [app EXCEPT !.http = "stopped"]
    /\ UNCHANGED << cache, lastUpdated, flushQueue, hsCtx, flushCtx, hsStats,
                    fwPc, wr, hsStopPc, repoClosed, repoRows, finished,
                    warned, drainFailed, accepted, batches, lastOp >>
    /\ UNCHANGED << clientVars, svcVars, readVars, lockVars, lifeVars >>

\* closeServiceContext's goroutine: a.ctx is done or 2 s have passed
CloseServiceContext ==
    /\ app.svcCtx = "waiting"
    /\ app' = [app EXCEPT !.svcCtx = "closed"]
    /\ UNCHANGED << cache, lastUpdated, flushQueue, hsCtx, flushCtx, hsStats,
                    fwPc, wr, hsStopPc, repoClosed, repoRows, finished,
                    warned, drainFailed, accepted, batches, lastOp >>
    /\ UNCHANGED << clientVars, svcVars, readVars, lockVars, lifeVars >>

\* awaitShutdown: the wait group is done (gracefully), or the shutdown
\* context is: it was when step 2 returned ctx.Err(), or its 10 s pass
\* while the wait group is not done; then the cancel functions, and Stop
\* returns
AwaitShutdown ==
    /\ app.pc = "await"
    /\ \/ /\ app.http = "stopped" /\ app.svcCtx = "closed"
          /\ app' = [app EXCEPT !.pc = "done", !.shutdown = "graceful"]
       \/ /\ hsLife.stopRet = "ctx"
             \/ ~(app.http = "stopped" /\ app.svcCtx = "closed")
          /\ app' = [app EXCEPT !.pc = "done", !.shutdown = "ungraceful"]
    /\ UNCHANGED << cache, lastUpdated, flushQueue, hsCtx, flushCtx, hsStats,
                    fwPc, wr, hsStopPc, repoClosed, repoRows, finished,
                    warned, drainFailed, accepted, batches, lastOp >>
    /\ UNCHANGED << clientVars, svcVars, readVars, lockVars, lifeVars >>

AppNext ==
    \/ AppStartTelemetry \/ AppStartClient \/ AppServe
    \/ AppStop \/ AppStopIngest \/ AppDrain \/ AppStopServing
    \/ HttpGracefulStop \/ CloseServiceContext \/ AwaitShutdown
    \/ PwStartupDelay \/ GcStopGraceful \/ GcStopTimeout
    \/ StoreUpdateMetrics \/ HsStopGraceful \/ HsStopTimeout
    \/ FwSelect \/ FwDrain
    \/ WrCheck("flush") \/ WrCall("flush") \/ WrIo("flush")
    \/ WrBackoff("flush")

\* the state after construction with a client configured with a startup
\* delay and without readiness check
InitApp == Init /\ cfg = [startupDelay |-> TRUE, readinessCheck |-> FALSE]

\* the app: its services started, run and stopped by app.Start / app.Stop;
\* the polling worker is in its startup delay or in its first poll, which
\* is still under way when the shutdown comes
SpecApp == InitApp /\ [][AppNext]_vars

\* the steps of app.Stop and of the goroutines it waits for: each goroutine
\* that can run does run, and a select with a ready case (a closed channel,
\* an expired timer) takes one
AppFairness ==
    /\ WF_vars(AppStopIngest) /\ WF_vars(AppDrain) /\ WF_vars(AppStopServing)
    /\ WF_vars(AwaitShutdown)
    /\ WF_vars(GcStopGraceful \/ GcStopTimeout)
    /\ WF_vars(HsStopGraceful \/ HsStopTimeout)
    /\ WF_vars(PwStartupDelay)
    /\ WF_vars(FwSelect) /\ WF_vars(FwDrain)
    /\ WF_vars(WrCheck("flush")) /\ WF_vars(WrCall("flush"))
    /\ WF_vars(WrIo("flush")) /\ WF_vars(WrBackoff("flush"))

\* the app under a fair scheduler
SpecAppFair == SpecApp /\ AppFairness

LifecycleNext ==
    \/ HsStart \/ QtsStop \/ RqWorkerExit \/ RqStopReturn
    \/ HsStop \/ HsStopGraceful
    \/ FwSelect \/ FwDrain

\* the lifecycle of the service, plain or with the request queue, on a
\* store whose flush queue stays empty
SpecLifecycle == InitLifecycle /\ [][LifecycleNext]_vars

QueryNext ==
    \/ QueryIngestMetrics \/ GetMetric \/ GetSwitchMetrics \/ ClockTick

HttpNext ==
    \/ QueryIngestMetrics \/ HttpGetMetric \/ HttpGetHealthStatus
    \/ ClockTick \/ ClockLeap

\* the REST surface: GET of one metric and GET of the health status between
\* calls of IngestMetrics, while time passes
SpecHttp == InitStore /\ [][HttpNext]_vars

CacheOpsNext ==
    \/ CacheCallUpdateMetrics \/ CacheCallUpdateBatch
    \/ CacheCallCleanupStale \/ ClockTick

\* the cache alone: its write methods and CleanupStale called one after the
\* other while time passes
SpecCacheOps == InitStore /\ [][CacheOpsNext]_vars

CacheKeysNext ==
    \/ CacheCallUpdateMetrics \/ CacheCallUpdateBatch
    \/ CacheCallCleanupStale \/ CacheCallClear \/ ClockTick

\* the cache alone, with Clear among the calls made on it
SpecCacheKeys == InitStore /\ [][CacheKeysNext]_vars

CacheStatsNext ==
    \/ CacheCallUpdateMetrics
    \/ \E r \in StatReaders :
         \/ StatRLock(r) \/ StatRequestLoad(r) \/ StatRequestStore(r)
         \/ StatHitLoad(r) \/ StatHitStore(r) \/ StatRUnlock(r)

\* the cache with its writes and two goroutines in its counted read methods
SpecCacheStats == InitStore /\ [][CacheStatsNext]_vars

WritesNext ==
    \/ QueryIngestMetrics \/ IngestBatch
    \/ WriteUpdateMetrics \/ WriteUpdateBatch \/ WriteStoreMetricsBulk
    \/ WrCheck("bulk") \/ WrCall("bulk") \/ WrIo("bulk") \/ WrBackoff("bulk")

\* every write operation of the service and of the hybrid store, with any
\* argument, on a store whose flush worker has not taken anything yet
SpecWrites == InitStore /\ [][WritesNext]_vars

\* the service's queries: GetMetric and GetSwitchMetrics between calls of
\* IngestMetrics, while time passes
SpecQuery == InitStore /\ [][QueryNext]_vars

(***************************************************************************)
(* HybridStore.FlushToDatabase: collect what the flush queue holds, then   *)
(* write it all in one writeToDatabase call.  The call runs in the         *)
(* caller's goroutine, next to the flush worker.                           *)
(***************************************************************************)
\* the number of records in the batches a queue holds
RECURSIVE QueuedRecords(_)
QueuedRecords(q) ==
    IF q = << >> THEN 0 ELSE Len(batches[Head(q)]) + QueuedRecords(Tail(q))

RECURSIVE FlushedRows(_, _)
\* the repository after the committed write of the collected batches
FlushedRows(rows, bids) ==
    IF bids = << >> THEN rows
    ELSE FlushedRows(BulkStoreMetrics(rows, Head(bids), batches[Head(bids)]),
                     Tail(bids))

\* FlushToDatabase begins: allMetrics is empty
MfBegin ==
    /\ mf.pc = "idle"
    /\ mf.calls < MaxFlushCalls
    /\ mf' = [mf EXCEPT !.pc = "drain", !.taken = << >>, !.calls = @ + 1]
    /\ UNCHANGED << clientVars, switchRegs, rq >>
    /\ UNCHANGED << cache, lastUpdated, lastOp, queueVars >>
    /\ UNCHANGED << appVars, readVars, lockVars, lifeVars >>

\* a collecting loop that reads the head of the queue and leaves it there
MfDrainLeavesBatch ==
    /\ mf.pc = "drain"
    /\ \/ /\ flushQueue # << >>
          /\ Len(mf.taken) < FlushQueueCap
          /\ mf' = [mf EXCEPT !.taken = Append(@, Head(flushQueue))]
          /\ UNCHANGED << flushQueue, hsStats >>
       \/ /\ mf.taken # << >>
          /\ mf' = [mf EXCEPT !.pc = "write"]
          /\ UNCHANGED << flushQueue, hsStats >>
       \/ /\ mf.taken = << >>
          /\ mf' = [mf EXCEPT !.pc = "idle",
                              !.last = [taken |-> << >>, result |-> "ok"]]
          /\ UNCHANGED << flushQueue, hsStats >>
    /\ UNCHANGED << clientVars, switchRegs, rq >>
    /\ UNCHANGED << cache, lastUpdated, lastOp, hsCtx, flushCtx, fwPc, wr,
                    hsStopPc, repoClosed, repoRows, finished, warned,
                    drainFailed, accepted, batches >>
    /\ UNCHANGED << appVars, readVars, lockVars, lifeVars >>

\* FlushToDatabase, one turn of the collecting loop's select: receive a
\* batch, or go to flushData (the 5 s are over, or the queue is empty);
\* with nothing collected the call returns nil
MfDrain ==
    /\ mf.pc = "drain"
    /\ \/ /\ flushQueue # << >>
          /\ flushQueue' = Tail(flushQueue)
          /\ mf' = [mf EXCEPT !.taken = Append(@, Head(flushQueue))]
          /\ UNCHANGED hsStats
       \/ /\ mf.taken # << >>
          /\ mf' = [mf EXCEPT !.pc = "write"]
          /\ UNCHANGED << flushQueue, hsStats >>
       \/ /\ mf.taken = << >>
          /\ mf' = [mf EXCEPT !.pc = "idle",
                              !.last = [taken |-> << >>, result |-> "ok"]]
          /\ UNCHANGED << flushQueue, hsStats >>
    /\ UNCHANGED << clientVars, switchRegs, rq >>
    /\ UNCHANGED << cache, lastUpdated, lastOp, hsCtx, flushCtx, fwPc, wr,
                    hsStopPc, repoClosed, repoRows, finished, warned,
                    drainFailed, accepted, batches >>
    /\ UNCHANGED << appVars, readVars, lockVars, lifeVars >>

\* FlushToDatabase, writeToDatabase(ctx, allMetrics) returns: one attempt
\* committed (the rows are in, the counters move), or every attempt failed
\* and was rolled back (the error is counted)
MfWrite ==
    /\ mf.pc = "write"
    /\ \E o \in {"ok", "exhausted"} :
         /\ o = "ok" => ~repoClosed
         /\ repoRows' = IF o = "ok" THEN FlushedRows(repoRows, mf.taken)
                        ELSE repoRows
         /\ hsStats' =
              IF o = "ok"
              THEN [hsStats EXCEPT
                      !.totalDBWrites = @ + QueuedRecords(mf.taken),
                      !.pendingFlushItems = @ - QueuedRecords(mf.taken)]
              ELSE [hsStats EXCEPT !.totalDBWriteErrors = @ + 1]
         /\ mf' = [mf EXCEPT !.pc = "idle", !.taken = << >>,
                             !.last = [taken |-> mf.taken, result |-> o]]
    /\ UNCHANGED << clientVars, switchRegs, rq >>
    /\ UNCHANGED << cache, lastUpdated, lastOp, flushQueue, hsCtx, flushCtx,
                    fwPc, wr, hsStopPc, repoClosed, finished, warned,
                    drainFailed, accepted, batches >>
    /\ UNCHANGED << appVars, readVars, lockVars, lifeVars >>

FlushersNext ==
    \/ StoreUpdateMetrics
    \/ HsFirstStart \/ HsFirstStop \/ HsStopGraceful \/ HsStopTimeout
    \/ FwSelect \/ FwDrain \/ FlushCtxExpire
    \/ WrCheck("flush") \/ WrCall("flush") \/ WrIo("flush")
    \/ WrBackoff("flush")
    \/ MfBegin \/ MfDrain \/ MfWrite

\* the hybrid store with its three consumers of the flush queue: the flush
\* worker, the worker's shutdown drain and FlushToDatabase
SpecFlushers == InitStore /\ [][FlushersNext]_vars

\* the request queue with its callers, its worker and its Stop
SpecRequestQueue == InitStore /\ [][RequestQueueNext]_vars

\* the service's batch path: IngestBatch, StoreMetricsBulk, the repository
SpecBulk == InitStore /\ [][BulkNext]_vars

ClientNext ==
    \/ GcStart \/ PwStartupDelay \/ PwReadiness \/ Tick \/ PwPollAndIngest
    \/ PwFetchCheck \/ PwFetchDo \/ PwFetchReturn \/ PwDedup \/ PwParse
    \/ PwRegisterSwitch \/ PwRegister \/ PwIngestReturn \/ PwLoop
    \/ GcStop \/ GcStopGraceful \/ GcStopTimeout

RestartNext ==
    \/ GcStart \/ PwPollAndIngest
    \/ PwFetchCheck \/ PwFetchDo \/ PwFetchReturn \/ PwDedup \/ PwParse
    \/ PwRegisterSwitch \/ PwRegister \/ PwIngestReturn \/ PwLoop
    \/ GcStop \/ GcStopGraceful \/ GcStopTimeout
    \/ GcRestart \/ OldPwPollAndIngest \/ OldPwPollEnds \/ OldPwLoop

\* the generator client started, stopped and started again, each worker
\* with the poll it makes before its first tick
SpecRestart == InitStore /\ [][RestartNext]_vars

\* the generator client with its polling worker
SpecClient == Init /\ [][ClientNext]_vars

(***************************************************************************)
(* Properties of the generator client, checked under SpecClient.           *)
(***************************************************************************)
\* the last two finished polls both fetched the same response, and it
\* carries a generation id
SameResponseTwice ==
    /\ Len(pollLog) = 2
    /\ pollLog[1].fetched /\ pollLog[2].fetched
    /\ pollLog[1].resp = pollLog[2].resp
    /\ pollLog[1].resp.gen # ""

\* over the two polls IngestBatch was called once, the second poll was
\* dropped as a duplicate and counted once in duplicateSkips
SecondPollDropped ==
    /\ pollLog[1].ingestCalls + pollLog[2].ingestCalls = 1
    /\ pollLog[2].outcome = "duplicate"
    /\ pollLog[2].duplicateSkips = pollLog[1].duplicateSkips + 1

C3_NoFetchAfterCancel ==
    [][gcCtx = "cancelled" => upstreamRequests' = upstreamRequests]_vars

\* after the cancellation the worker took a tick, began another poll, and
\* its fetch was refused on the cancelled context without a request
C3_Witness ==
    /\ gcCtx = "cancelled"
    /\ stopPc = "returned"
    /\ fetchErr = "ctx"
    /\ gcStats.totalPolls >= 2
    /\ upstreamRequests < gcStats.totalPolls
    /\ pwPc = "loop"

\* C4, as stated: once Stop has returned, no IngestBatch call of the client
\* is in progress (the worker is not inside IngestBatch) and none begins
\* later (the worker is not about to call it).
C4_NoIngestAfterStop ==
    stopPc = "returned" => pwPc \notin {"register", "ingest"}

(***************************************************************************)
(* Properties of the hybrid store and the service, checked under           *)
(* SpecStore, SpecBulk and SpecService.                                    *)
(***************************************************************************)
\* the rows of batch bid in the repository, in insertion order
RowsOf(bid) == SelectSeq(repoRows, LAMBDA r : r.bid = bid)

\* batch bid is named in a warning of the writer or of the drain
Reported(bid) == bid \in (drainFailed \cup warned)

\* C2, as stated: once the flush worker has exited, every batch enqueued
\* before Stop is in the repository or was reported in the log.
C2_DrainLosesNothingSilently ==
    fwPc = "exited" =>
        \A bid \in accepted : RowsOf(bid) # << >> \/ Reported(bid)

\* a step of UpdateMetrics or UpdateBatch taken while the queue is full
DropStep ==
    /\ lastOp'.seq = lastOp.seq + 1
    /\ lastOp'.name \in {"UpdateMetrics", "UpdateBatch"}
    /\ Len(flushQueue) = FlushQueueCap

\* the step left the records of the call in the cache, returned success and
\* did not touch the queue
DropStepKeepsCacheAndQueue ==
    /\ \A i \in DOMAIN lastOp'.arg :
          cache'[lastOp'.arg[i].switch_id] = lastOp'.arg[i]
    /\ lastOp'.ret = "ok"
    /\ flushQueue' = flushQueue

\* C5, as stated: with the queue full, UpdateMetrics and UpdateBatch update
\* the cache, return success, enqueue nothing, and raise by one a counter
\* of dropped batches (a counter of the store other than the request count).
C5_FullQueueDropIsCounted ==
    [][DropStep =>
          /\ DropStepKeepsCacheAndQueue
          /\ \E f \in DOMAIN hsStats \ {"totalRequests"} :
                hsStats'[f] = hsStats[f] + 1]_vars

\* C6, as stated: the batch path does not call the repository itself (no
\* writeToDatabase runs on the caller of StoreMetricsBulk) and IngestBatch
\* does not fail on the durable write.
C6_BulkPathIsAsynchronous ==
    /\ wr["bulk"].pc = "idle"
    /\ lastOp.ret # "store_error"

C8_NoRetryAfterFatal ==
    [][\A w \in Writers :
          (wr[w].pc = "io" /\ wr'[w].err = "fatal") =>
              wr'[w].pc \notin {"backoff", "check", "call", "io"}]_vars

\* C9: while the context given to writeToDatabase is done, the writer begins
\* no transaction; and its step from the head of the loop or from the
\* backoff wait returns the context's error, or passes from the backoff to
\* the head of the loop, where the context is checked.
C9_CancelStopsRetries ==
    [][\A w \in Writers :
          (wr[w].pc # "idle" /\ CtxDone(wr[w].ctx)) =>
              /\ wr[w].pc # "io" => wr'[w].pc # "io"
              /\ wr'[w].begun <= wr[w].begun
              /\ (wr[w].pc \in {"check", "backoff"} /\ wr'[w] # wr[w]) =>
                    \/ wr'[w].pc = "idle" /\ finished'[w].result = "ctx"
                       /\ finished'[w].bid = wr[w].bid
                       /\ finished'[w].begun = wr[w].begun
                    \/ wr[w].pc = "backoff" /\ wr'[w].pc = "check"]_vars

\* a write failed once, was cancelled while it backed off or before its next
\* attempt, and returned the context's error with attempts left
C9_Witness ==
    /\ finished["flush"].result = "ctx"
    /\ finished["flush"].transient = 1
    /\ finished["flush"].begun = 1
    /\ finished["flush"].clean

\* a record the service is to refuse: a negative bandwidth, latency or
\* packet-error count, a utilization outside [0, 100], a temperature outside
\* [-50, 150]
OutOfRange(data) ==
    \/ data.bandwidth_mbps < 0
    \/ data.latency_ms < 0
    \/ data.packet_errors < 0
    \/ data.utilization_pct < 0 \/ data.utilization_pct > 100
    \/ data.temperature_c < -50 \/ data.temperature_c > 150

\* C10, as stated: IngestMetrics of an out-of-range record returns a
\* validation error and leaves the cache and the flush queue unchanged.
C10_InvalidRecordRefused ==
    [][(/\ lastOp'.seq = lastOp.seq + 1
        /\ lastOp'.name = "IngestMetrics"
        /\ OutOfRange(lastOp'.arg[1]))
          => /\ lastOp'.ret = "validation_error"
             /\ UNCHANGED << cache, flushQueue >>]_vars


(***************************************************************************)
(* Properties of the queries, checked under SpecQuery.                     *)
(***************************************************************************)
\* this step is a GetMetric call that asks for one of the five metrics of
\* the switch the last store call, a successful IngestMetrics(R), wrote
ReadsBackLastIngest ==
    /\ lastRead'.seq = lastRead.seq + 1
    /\ lastRead'.name = "GetMetric"
    /\ lastRead'.metric \in MetricTypes
    /\ lastOp.name = "IngestMetrics"
    /\ lastOp.ret = "ok"
    /\ lastRead'.switch_id = lastOp.arg[1].switch_id

\* C11: after IngestMetrics(R) succeeded for a record R with a switch id,
\* and before any other write, GetMetric(R.switch_id, m) succeeds and
\* returns the value R carries for m, for each of the five metric types m
C11_RoundTrip ==
    [][ReadsBackLastIngest =>
          /\ lastRead'.ret = "ok"
          /\ lastRead'.value = lastOp.arg[1][lastRead'.metric]]_vars

\* a latency query answered with the latency of the record just ingested
C11_Witness ==
    /\ lastRead.name = "GetMetric"
    /\ lastRead.ret = "ok"
    /\ lastRead.metric = "latency_ms"
    /\ lastOp.name = "IngestMetrics"
    /\ lastOp.ret = "ok"
    /\ lastRead.switch_id = lastOp.arg[1].switch_id
    /\ lastRead.value = lastOp.arg[1].latency_ms


\* C20: the timestamp of a GetMetric response is the measurement timestamp
\* of the cached record, the value GetSwitchMetrics returns for the same
\* switch, not the instant at which the record was ingested
C20_MetricTimestampIsMeasurement ==
    [][(lastRead'.seq = lastRead.seq + 1 /\ lastRead'.name = "GetMetric"
          /\ lastRead'.ret = "ok") =>
            lastRead'.timestamp = cache[lastRead'.switch_id].timestamp]_vars

(***************************************************************************)
(* Properties of the cache, checked under SpecCache.                       *)
(***************************************************************************)
\* C12: whatever way the cache's write calls (UpdateMetrics, UpdateBatch)
\* interleave with GetAllMetrics, ListAllSwitches and GetSnapshot, every
\* record a read returns equals, field for field, one complete record that
\* a write call stored: never a mix of two writes
C12_NoTornReads ==
    \A sw \in SwitchIDs :
        cacheReader.out[sw] = NoData \/ cacheReader.out[sw] \in written

\* ListAllSwitches returned both switches after sw1 was overwritten by a
\* record that differs from the first in two fields
C12_Witness ==
    /\ cacheReader.pc = "returned"
    /\ cacheReader.kind = "ListAllSwitches"
    /\ cacheReader.out["sw1"] = Rec1c
    /\ cacheReader.out["sw2"] = Rec2
    /\ Rec1 \in written
    /\ cacheWriter.pc = "idle"
    /\ cacheWriter.calls = 2


(***************************************************************************)
(* Properties of the duplicate decision, checked under SpecClient.         *)
(***************************************************************************)
\* the stated decision: the generation id when there is one, the data
\* timestamp only when there is none
StatedDuplicate(g, t, lastG, lastT) ==
    \/ g # "" /\ g = lastG
    \/ g = "" /\ t # 0 /\ ~(t > lastT)

\* C13: the worker's duplicate decision for a fetched response with
\* generation id g and data timestamp t, against the last-seen (lastG,
\* lastT), is: duplicate iff g is not empty and equals lastG, or g is empty
\* and t is present and not strictly after lastT; a response whose
\* generation id is new is accepted whatever its timestamp
C13_DuplicateDecision ==
    [][pwPc = "dedup" /\ pwPc' # "dedup" =>
          (pwPc' = "loop" <=>
             StatedDuplicate(resp.gen, DataTimestamp(resp),
                             lastGenerationID, lastDataTimestamp))]_vars


\* C14: while every finished poll fetched an ingestible response carrying
\* a generation id and no ingest failed, the number of batches the worker
\* submitted to the service equals the number of distinct generation ids
\* fetched, also when an id recurs after another one (g1, g2, g1)
C14_OneBatchPerGenerationID ==
    (replay.clean /\ pwPc \notin {"dedup", "parse", "register", "ingest"})
        => ingestCalls = Cardinality(replay.gens)


(***************************************************************************)
(* Properties of the lifecycle, checked under SpecLifecycle.               *)
(***************************************************************************)
\* C15: Start takes effect at most once: a call on a store that was started
\* before, stopped since or not, returns the already-started error and
\* starts no worker, and a stopped store never becomes started again
C15_StartAtMostOnce ==
    [][/\ (hsLife'.startCalls = hsLife.startCalls + 1 /\ hsCtx # "nil") =>
            /\ hsLife'.startRet = "already_started"
            /\ hsLife'.workers = hsLife.workers
            /\ UNCHANGED << hsCtx, fwPc, qts >>
       /\ hsLife'.workers <= 1
       /\ hsCtx = "cancelled" => hsCtx' = "cancelled"]_vars

\* Start was refused on a store that had been started and stopped
C15_Witness ==
    /\ hsLife.startCalls = 2
    /\ hsLife.startRet = "already_started"
    /\ hsLife.workers = 1
    /\ hsCtx = "cancelled"
    /\ hsStopPc = "returned"
    /\ fwPc = "exited"

\* a Stop call on the started service has returned nil
StoppedOnce ==
    /\ hsCtx = "cancelled"
    /\ hsLife.stopRet = "nil"

\* this step belongs to a Stop call: the call begins, goes on or returns
StopCallStep ==
    \/ hsLife'.stopCalls # hsLife.stopCalls
    \/ hsStopPc' # hsStopPc
    \/ qts'.pc # qts.pc

\* C16: once a started service, plain or wrapped by the queued service
\* with the request queue enabled, has been stopped, a further Stop call
\* neither panics nor returns an error, and changes nothing: no second
\* drain, no second close of a channel
C16_StopIdempotent ==
    [][(StoppedOnce /\ StopCallStep) =>
          /\ qts'.pc # "panicked"
          /\ hsLife'.stopRet = "nil"
          /\ qts'.chanClosed = qts.chanClosed
          /\ UNCHANGED << cache, flushQueue, flushCtx, fwPc, repoRows,
                          repoClosed, hsCtx >>]_vars


(***************************************************************************)
(* Properties of the shutdown of the store, checked under SpecStore.       *)
(***************************************************************************)
\* C17: once HybridStore.Stop has been invoked, an ingest call on the
\* store or the service returns a shutting-down error and changes neither
\* the cache nor the flush queue
C17_IngressRefusedAfterStop ==
    [][(hsCtx = "cancelled" /\ lastOp'.seq = lastOp.seq + 1) =>
          /\ lastOp'.ret = "shutting_down"
          /\ UNCHANGED << cache, flushQueue >>]_vars


\* C19: the repository is closed only after the flush worker has returned:
\* in every run of HybridStore.Stop, also when its context expires before
\* the workers finish, no repository write of the flush worker begins or is
\* under way once the repository is closed
C19_RepoClosedAfterWriter ==
    repoClosed => wr["flush"].pc # "io"

(***************************************************************************)
(* Properties of app.Stop, checked under SpecAppFair.                      *)
(***************************************************************************)
\* this step begins step 2 of app.Stop, the call of TelemetryService.Stop
DrainBegins == hsLife'.stopCalls = hsLife.stopCalls + 1

\* this step begins step 3 of app.Stop
StopServingBegins == app.pc # "await" /\ app'.pc = "await"

\* C18: app.Stop runs stop-ingest, drain, stop-serving in this order, no
\* step beginning before the one before it has returned; an error or a
\* timeout in a step does not keep the next ones from running; and Stop
\* always terminates, having attempted all three
C18_OrderedShutdown ==
    /\ [][/\ DrainBegins => stopPc = "returned"
          /\ StopServingBegins =>
                /\ stopPc = "returned"
                /\ hsLife.stopCalls = 1
                /\ hsStopPc = "returned"]_vars
    /\ [](app.pc = "done" =>
            /\ stopPc = "returned"
            /\ hsLife.stopCalls = 1 /\ hsLife.stopRet # "none"
            /\ app.http # "serving")
    /\ (app.pc = "stopping") ~> (app.pc = "done")

\* Stop finished although step 1 timed out and step 2 returned the
\* context's error
C18_Witness ==
    /\ app.pc = "done"
    /\ stopResult = "timeout"
    /\ hsLife.stopRet = "ctx"
    /\ app.http = "stopped"


(***************************************************************************)
(* Properties of the write operations, checked under SpecWrites.           *)
(***************************************************************************)
\* the records of batch bid
EmptyIdIn(bid) == \E i \in DOMAIN batches[bid] : batches[bid][i].switch_id = ""

\* no record with an empty switch id is in the cache, in the flush queue, in
\* a batch handed to the repository or in the repository
NoEmptySwitchID ==
    /\ \A sw \in SwitchIDs :
          cache[sw] # NoData => cache[sw].switch_id = sw /\ sw # ""
    /\ \A i \in DOMAIN flushQueue : ~EmptyIdIn(flushQueue[i])
    /\ \A w \in Writers : wr[w].pc # "idle" => ~EmptyIdIn(wr[w].bid)
    /\ \A i \in DOMAIN repoRows : repoRows[i].rec.switch_id # ""

\* this step is a call of the service's op
ServiceCall(op) == lastOp'.seq = lastOp.seq + 1 /\ lastOp'.name = op

\* C21, as stated: after any sequence of write operations of the service and
\* of the hybrid store no record with an empty switch id is in the cache, in
\* the flush queue or handed to the repository; IngestMetrics with an empty
\* id returns an error and changes nothing; IngestBatch drops the records
\* with an empty id and ingests exactly the others
C21_SwitchIdNeverEmpty ==
    /\ []NoEmptySwitchID
    /\ [][(ServiceCall("IngestMetrics") /\ lastOp'.arg[1].switch_id = "") =>
            /\ lastOp'.ret = "empty_switch_id"
            /\ UNCHANGED << cache, flushQueue, batches, repoRows, wr >>]_vars
    /\ [][(ServiceCall("IngestBatch") /\ lastOp'.ret = "pending") =>
            /\ batches'[wr'["bulk"].bid] = ValidData(lastOp'.arg)
            /\ \A i \in DOMAIN lastOp'.arg :
                  lastOp'.arg[i].switch_id # "" =>
                     cache'[lastOp'.arg[i].switch_id] # NoData]_vars

(***************************************************************************)
(* Properties of the cache's methods, checked under SpecCacheOps.          *)
(***************************************************************************)
\* this step is a successful call of a write method of the cache
CacheWriteStep ==
    /\ lastOp'.seq = lastOp.seq + 1
    /\ lastOp'.name \in {"Cache.UpdateMetrics", "Cache.UpdateBatch"}
    /\ lastOp'.ret = "ok"

\* the keys the call wrote
KeysWritten == DOMAIN lastOp'.arg \ {""}

\* C22: every record in the cache has a non-zero timestamp; a record written
\* through UpdateMetrics or UpdateBatch with a zero timestamp is stored with
\* the instant of the write, one written with a non-zero timestamp keeps it
C22_CachedTimestampNonZero ==
    /\ [](\A sw \in SwitchIDs :
            cache[sw] # NoData => cache[sw].timestamp # 0)
    /\ [][CacheWriteStep =>
            \A sw \in KeysWritten :
               cache'[sw].timestamp =
                  IF lastOp'.arg[sw].timestamp = 0 THEN now
                  ELSE lastOp'.arg[sw].timestamp]_vars

\* at time 2 a batch wrote sw1 with its timestamp 1, which was kept, and sw2
\* without timestamp, which got the instant of the write
C22_Witness ==
    /\ lastOp.name = "Cache.UpdateBatch"
    /\ now = 2
    /\ cache["sw1"] = Rec1
    /\ lastUpdated["sw1"] = 2
    /\ cache["sw2"] = [RecNoTs EXCEPT !.timestamp = 2]

\* C23: a cache write replaces the record of its switch id by the record
\* written, whatever the timestamps of the two: the record of the write
\* applied later is the one held, also when its timestamp is the older one
C23_LastWriterWins ==
    [][CacheWriteStep =>
          \A sw \in KeysWritten :
             /\ \A f \in MetricTypes : cache'[sw][f] = lastOp'.arg[sw][f]
             /\ lastOp'.arg[sw].timestamp # 0 =>
                   cache'[sw].timestamp = lastOp'.arg[sw].timestamp]_vars

\* the first two calls wrote sw1: the record measured at 2, then the record
\* measured at 1, which the cache now holds
C23_Witness ==
    /\ lastOp.seq = 2
    /\ lastOp.name = "Cache.UpdateMetrics"
    /\ cache["sw1"] = Rec1
    /\ Rec1Late \in written

\* C24: CleanupStale(max_age) removes exactly the entries last updated
\* strictly before now - max_age, returns their number and leaves every
\* other entry and its last-update instant as they were
C24_CleanupStaleExact ==
    [][(lastOp'.seq = lastOp.seq + 1 /\ lastOp'.name = "CleanupStale") =>
          LET stale == { sw \in SwitchIDs :
                           /\ cache[sw] # NoData
                           /\ lastUpdated[sw] < now - lastOp'.arg }
          IN  /\ lastOp'.ret = Cardinality(stale)
              /\ \A sw \in stale :
                    cache'[sw] = NoData /\ lastUpdated'[sw] = 0
              /\ \A sw \in SwitchIDs \ stale :
                    /\ cache'[sw] = cache[sw]
                    /\ lastUpdated'[sw] = lastUpdated[sw]]_vars

\* CleanupStale(0) at time 2 removed sw1, last updated at 1, and kept sw2,
\* last updated at 2
C24_Witness ==
    /\ lastOp.name = "CleanupStale"
    /\ lastOp.arg = 0
    /\ lastOp.ret = 1
    /\ now = 2
    /\ cache["sw1"] = NoData
    /\ cache["sw2"] # NoData
    /\ lastUpdated["sw2"] = 2

(***************************************************************************)
(* Properties of the REST surface, checked under SpecHttp.                 *)
(***************************************************************************)
\* this step answers a request to the handler named
HttpStep(handler) ==
    lastRead'.seq = lastRead.seq + 1 /\ lastRead'.name = handler

C26_HealthStatus ==
    [][HttpStep("HTTP GetHealthStatus") =>
          /\ lastRead'.ret \in {"healthy", "degraded"}
          /\ lastRead'.status = IF lastRead'.ret = "healthy" THEN 200 ELSE 503
          /\ lastRead'.ret = "degraded" <=>
                \/ CachedSwitches(cache) = {}
                \/ TotalAge(cache, CachedSwitches(cache)) >
                      300 * Cardinality(CachedSwitches(cache))]_vars

\* the service answered 503 with one switch in its cache, whose record was
\* measured 301 seconds ago
C26_Witness ==
    /\ lastRead.name = "HTTP GetHealthStatus"
    /\ lastRead.status = 503
    /\ cache["sw1"] = Rec1
    /\ cache["sw2"] = NoData
    /\ now = 302

(***************************************************************************)
(* Properties of the CSV parsing, checked under SpecClient.                *)
(***************************************************************************)
\* a data row with its seven columns, an RFC 3339 timestamp and numeric
\* fields that parse
WellFormed(row) == row.cols >= 7 /\ row.ts # 0 /\ row.nums

\* the well-formed data rows of a body, parsed, in their order
WellFormedRows(body) ==
    LET rows == SelectSeq(Tail(body), WellFormed)
    IN  [i \in DOMAIN rows |-> ParsedRow(rows[i])]

\* the body has a data row that is to be skipped and one that is not
MixedBody(body) ==
    /\ Len(body) >= 2
    /\ \E i \in 2 .. Len(body) : ~WellFormed(body[i])
    /\ \E i \in 2 .. Len(body) : WellFormed(body[i])

\* C27, as stated: when a fetched body has a data row with fewer than 7
\* columns or with an unparseable field next to well-formed rows, parsing
\* skips that row alone, hands exactly the well-formed rows on to one
\* IngestBatch call, and the client's error count grows for the skipped row
C27_BadRowSkippedAlone ==
    [][(pwPc = "parse" /\ pwPc' # "parse" /\ MixedBody(resp.body)) =>
          /\ pwPc' = "register"
          /\ telemetryData' = WellFormedRows(resp.body)
          /\ gcStats'.errorCount > gcStats.errorCount]_vars

(***************************************************************************)
(* Properties of the cache's counters, checked under SpecCacheStats.       *)
(***************************************************************************)
\* C28, as stated: whatever the interleaving of concurrent GetMetric,
\* GetAllMetrics and ListAllSwitches calls, request_count and hit_count
\* never decrease, and hit_count never exceeds request_count
C28_CountersMonotonic ==
    /\ [](cacheStats.hitCount <= cacheStats.requestCount)
    /\ [][/\ cacheStats'.requestCount >= cacheStats.requestCount
          /\ cacheStats'.hitCount >= cacheStats.hitCount]_vars

(***************************************************************************)
(* Properties of the bulk path, checked under SpecBulk.                    *)
(***************************************************************************)
\* the step in which IngestBatch hands its records to StoreMetricsBulk
BulkStoreStep ==
    /\ lastOp' # lastOp
    /\ lastOp'.name = "IngestBatch"
    /\ lastOp'.ret = "pending"

\* the positions of the records of sw in the slice
PositionsOf(metrics, sw) == {i \in DOMAIN metrics : metrics[i].switch_id = sw}

\* the greatest of a non-empty set of positions
Latest(S) == CHOOSE i \in S : \A j \in S : j <= i

\* C29: StoreMetricsBulk leaves in the cache, for every switch id of the
\* batch, the record that comes last in the batch for that id, and leaves
\* the other entries alone; the batch it starts writing is the whole slice
\* in its order, and the transaction that commits appends one row per
\* record of the batch, in that order, not one per switch
C29_BulkCacheLatestStoreAll ==
    /\ [][BulkStoreStep =>
            LET metrics == ValidData(lastOp'.arg)
            IN  /\ \A sw \in SwitchIDs :
                      cache'[sw] =
                         IF PositionsOf(metrics, sw) = {}
                         THEN cache[sw]
                         ELSE StoredCopy(sw,
                                 metrics[Latest(PositionsOf(metrics, sw))])
                /\ wr'["bulk"].pc # "idle"
                /\ batches'[wr'["bulk"].bid] = metrics]_vars
    /\ [][repoRows' # repoRows =>
            LET recs == batches[wr["bulk"].bid]
            IN  /\ Len(repoRows') = Len(repoRows) + Len(recs)
                /\ \A i \in 1 .. Len(recs) :
                      repoRows'[Len(repoRows) + i] =
                         [bid |-> wr["bulk"].bid, rec |-> recs[i]]
                /\ \A i \in 1 .. Len(repoRows) :
                      repoRows'[i] = repoRows[i]]_vars

\* a batch of two records of sw1 was written: the cache holds the second,
\* the repository both, the first one first
C29_Witness ==
    /\ lastOp.name = "IngestBatch"
    /\ lastOp.arg = << Rec1, Rec1b >>
    /\ finished["bulk"].result = "ok"
    /\ cache["sw1"] = Rec1b
    /\ Len(repoRows) >= 2
    /\ repoRows[Len(repoRows) - 1].rec = Rec1
    /\ repoRows[Len(repoRows)].rec = Rec1b
    /\ repoRows[Len(repoRows)].bid = finished["bulk"].bid
    /\ repoRows[Len(repoRows) - 1].bid = finished["bulk"].bid

(***************************************************************************)
(* Properties of the last-seen tuple, checked under SpecClient.            *)
(***************************************************************************)
\* the client's last-seen tuple
LastSeen == << lastGenerationID, lastDataTimestamp >>

\* a poll ends in this step
PollEnds == pollLog' # pollLog

\* the outcome of the poll that ended last
LastOutcome(log) == log[Len(log)].outcome

DistinctSwitches(data) ==
    {data[i].switch_id : i \in DOMAIN data} \ {""}

\* C31: while the IngestBatch call of a poll is in progress, the poll has
\* called RegisterSwitch exactly once for every distinct non-empty switch id
\* of its batch and for nothing else, whether these calls failed or not;
\* RegisterSwitch is called only inside the registration loop, before the
\* poll's IngestBatch call begins; and the loop is left only into the
\* IngestBatch call
C31_RegisterEachSwitchOnce ==
    /\ [](pwPc = "ingest" =>
            /\ {PollCalls[j].sw : j \in DOMAIN PollCalls} =
                  DistinctSwitches(telemetryData)
            /\ Len(PollCalls) = Cardinality(DistinctSwitches(telemetryData)))
    /\ [][switchRegs' # switchRegs =>
            /\ pwPc = "register" /\ pwPc' = "register"
            /\ ingestCalls' = ingestCalls]_vars
    /\ [][(pwPc = "register" /\ pwPc' # "register") =>
            /\ pwPc' = "ingest"
            /\ ingestCalls' = ingestCalls + 1]_vars

\* the batch has two records of sw1, one of sw2 and one without switch id;
\* the registration of sw1 failed, sw2 was registered all the same and the
\* IngestBatch call is in progress
C31_Witness ==
    /\ pwPc = "ingest"
    /\ Len(telemetryData) = 4
    /\ PollCalls = << [sw |-> "sw1", ok |-> FALSE],
                      [sw |-> "sw2", ok |-> TRUE] >>

(***************************************************************************)
(* Properties of Start after Stop, checked under SpecRestart.              *)
(***************************************************************************)
\* how many polling workers are alive
WorkersAlive ==
    (IF WorkerAlive(pwPc) THEN 1 ELSE 0) +
    (IF WorkerAlive(oldPw.pc) THEN 1 ELSE 0)

\* how many polls are in progress
PollsInProgress ==
    (IF PollInProgress(pwPc) THEN 1 ELSE 0) +
    (IF oldPw.pc = "inflight" THEN 1 ELSE 0)

\* C32, as stated: whatever the sequence of Start and Stop calls, a Start
\* after a Stop that timed out included, at most one polling worker is
\* alive and at most one poll is in progress
C32_OnePollOneWorker ==
    /\ WorkersAlive <= 1
    /\ PollsInProgress <= 1

(***************************************************************************)
(* Liveness of the flush path, checked under SpecStoreFair.                *)
(***************************************************************************)
\* batch bid waits in the flush queue
InFlushQueue(bid) == \E i \in DOMAIN flushQueue : flushQueue[i] = bid

\* every record of batch bid is in the repository, in the batch's order
Durable(bid) == RowsOf(bid) = RowsFor(bid, batches[bid])

\* the flush worker's write of batch bid has returned an error
WriteGaveUp(bid) ==
    finished["flush"].bid = bid /\ finished["flush"].result # "ok"

\* C33: a batch that waits in the flush queue of a started store eventually
\* is in the repository with all its records, unless the store is stopped
\* or the write of the batch fails (a fatal error, or max_retries transient
\* ones); a batch that is in the repository or whose write failed has been
\* taken from the queue by then
C33_DurabilityCatchesUp ==
    \A bid \in 1 .. MaxOps :
       /\ []((batches[bid] # << >> /\ (Durable(bid) \/ WriteGaveUp(bid))) =>
               ~InFlushQueue(bid))
       /\ (hsCtx = "live" /\ InFlushQueue(bid)) ~>
             (hsCtx # "live" \/ Durable(bid) \/ WriteGaveUp(bid))

\* the store is running, a batch has come out of the queue and is in the
\* repository after a transient failure, and the cache holds its record
C33_Witness ==
    /\ hsCtx = "live"
    /\ \E bid \in BatchIds :
         /\ batches[bid] # << >>
         /\ ~InFlushQueue(bid)
         /\ Durable(bid)
         /\ finished["flush"].bid = bid
         /\ finished["flush"].transient = 1
         /\ \A i \in DOMAIN batches[bid] :
               cache[batches[bid][i].switch_id] # NoData

(***************************************************************************)
(* Properties of the retry loop, checked under SpecRetries.                *)
(***************************************************************************)
\* the turns of the loop whose repository call succeeds
Successes(outcomes) == {k \in DOMAIN outcomes : outcomes[k] = "nil"}

\* the context is never done during the call
Uncancelled(outcomes) == \A k \in DOMAIN outcomes : outcomes[k] # "ctx"

WorkerStep ==
    \/ PwStartupDelay \/ PwReadiness \/ PwPollAndIngest \/ PwFetchCheck
    \/ PwFetchDo \/ PwFetchReturn \/ PwDedup \/ PwParse \/ PwRegisterSwitch
    \/ PwRegister \/ PwIngestReturn \/ PwLoop

\* Stop can return: the worker has exited, or the two seconds ran out
StopCanReturn == ENABLED (GcStopGraceful \/ GcStopTimeout)

\* C35: Stop and the polling worker do not block each other.  While Stop
\* waits for the worker, a worker that has not exited can take its next
\* step (so a poll in flight ends, with its counter and dedup updates, and
\* the worker exits while Stop is waiting); a Stop that returns after the
\* worker exited returns through the graceful path; and a waiting Stop can
\* always return or see the worker move.
C35_StopAndWorkerDoNotBlock ==
    /\ stopPc = "waiting" /\ pwPc # "exited" => ENABLED WorkerStep
    /\ stopPc = "waiting" => StopCanReturn \/ ENABLED WorkerStep
    /\ stopResult = "timeout" => ~PollInProgress(pwPc) \/ pwPc = "exited"

\* the polls that have ended, by the counters
PollsEnded ==
    gcStats.successfulPolls + gcStats.duplicateSkips + gcStats.errorCount

\* C36: every poll ends in exactly one of success, duplicate skip and
\* error: the step that ends a poll adds one to exactly one of the three
\* counters, so whenever no poll is in progress
\* total_polls = successful_polls + duplicate_skips + error_count; and the
\* polling worker leaves its loop only when its context is cancelled: a
\* poll that ended, failed or not, is followed by the loop's select.
C36_PollOutcomesPartition ==
    /\ [][ /\ ~PollInProgress(pwPc') =>
                gcStats'.totalPolls = PollsEnded'
           /\ PollInProgress(pwPc') =>
                gcStats'.totalPolls = PollsEnded' + 1
           /\ PollInProgress(pwPc) /\ ~PollInProgress(pwPc') =>
                /\ PollsEnded' = PollsEnded + 1
                /\ pwPc' = "loop"
           /\ pwPc # "exited" /\ pwPc' = "exited" => CtxDone("gc") ]_vars

\* C36 witness: after three polls one was ingested, one was skipped as a
\* duplicate and one failed, and the worker is back at its loop's select
C36_Witness ==
    /\ pwPc = "loop"
    /\ gcStats.totalPolls = 3
    /\ gcStats.successfulPolls = 1
    /\ gcStats.duplicateSkips = 1
    /\ gcStats.errorCount = 1
    /\ gcCtx = "live"

\* the flush worker has no batch in hand
FlushWorkerIdle == fwPc \notin {"writing", "drain_writing"}

\* C37: pending_items is never negative, and whenever the flush worker is
\* idle it is the number of records in the batches the flush queue holds.
C37_PendingItemsIsQueueLength ==
    /\ hsStats.pendingFlushItems >= 0
    /\ FlushWorkerIdle =>
          hsStats.pendingFlushItems = QueuedRecords(flushQueue)

\* the ways a queued request may end
RqOutcomes == {"result", "full", "timeout", "shutdown"}

\* C38: a request submitted through QueueGetMetric or QueueGetAllMetrics
\* ends with exactly one of the handler's result, a queue-full error, a
\* timeout error and a shutting-down error; the queue-full error comes with
\* one more dropped request and nothing else does; and whatever RequestQueue
\* .Stop does meanwhile, no caller sends on the closed request channel.
C38_QueuedRequestOutcome ==
    [][\A c \in RqCallers :
         /\ rq'.caller[c].pc # "panicked"
         /\ rq.caller[c].pc # "done" /\ rq'.caller[c].pc = "done" =>
              /\ rq'.caller[c].outcome \in RqOutcomes
              /\ rq'.caller[c].outcome = "result" => rq.caller[c].resp
              /\ rq'.caller[c].outcome = "full" <=>
                    rq'.dropped = rq.dropped + 1
         /\ rq.caller[c].pc \in {"send", "wait"} =>
              rq'.caller[c].req = rq.caller[c].req ]_vars

\* who holds batch bid: the flush queue, the flush worker in its normal
\* branch, the worker's shutdown drain, a FlushToDatabase call
Holders(bid) ==
    (IF InFlushQueue(bid) THEN {"queue"} ELSE {})
    \cup (IF wr["flush"].bid = bid
          THEN {IF wr["flush"].ctx = "hs" THEN "worker" ELSE "drain"}
          ELSE {})
    \cup (IF \E i \in DOMAIN mf.taken : mf.taken[i] = bid
          THEN {"manual"} ELSE {})

\* C39: a batch handed to the hybrid store is written to the repository at
\* most once.  Its rows in the repository are none or exactly its records
\* once; it is held by at most one of the queue and its three consumers,
\* and by none once it has rows; a batch that leaves the queue goes to
\* exactly one consumer, and a batch no one holds is never held again; a
\* step that ends a write attempt without committing adds no row.
C39_AtMostOncePersistence ==
    [][\A bid \in 1 .. MaxOps :
         LET before == Holders(bid)
             after == Holders(bid)'
             rows == RowsOf(bid)'
         IN  /\ rows \in {<< >>, RowsFor(bid, batches'[bid])}
             /\ Cardinality(after) <= 1
             /\ rows # << >> => after = {}
             /\ "queue" \in before /\ "queue" \notin after =>
                  \E h \in {"worker", "drain", "manual"} : after = {h}
             /\ batches[bid] # << >> /\ before = {} => after = {}
             /\ after = before /\ before # {} => rows = RowsOf(bid)]_vars

\* C39 witness: one batch was written by FlushToDatabase, another by the
\* flush worker after a failed attempt, and each has its rows once
C39_Witness ==
    \E b1, b2 \in BatchIds :
       /\ b1 # b2
       /\ mf.last.result = "ok" /\ mf.last.taken = << b1 >>
       /\ finished["flush"].bid = b2 /\ finished["flush"].result = "ok"
       /\ finished["flush"].transient >= 1
       /\ RowsOf(b1) = RowsFor(b1, batches[b1]) /\ batches[b1] # << >>
       /\ RowsOf(b2) = RowsFor(b2, batches[b2]) /\ batches[b2] # << >>

\* the keys of c.data
DataKeys == {sw \in SwitchIDs : cache[sw] # NoData}

\* the keys of c.lastUpdated
LastUpdatedKeys == {sw \in SwitchIDs : lastUpdated[sw] # 0}

\* C40: in every state of the cache c.data and c.lastUpdated have the same
\* keys, none of them the empty string, and the record stored under a key
\* has that key as its SwitchID, after any sequence of UpdateMetrics,
\* UpdateBatch, CleanupStale and Clear.
C40_CacheMapsAgree ==
    /\ DataKeys = LastUpdatedKeys
    /\ \A sw \in DataKeys : cache[sw].switch_id = sw
    /\ \A sw \in SwitchIDs \ DataKeys : cache[sw] = NoData /\ lastUpdated[sw] = 0

\* C40 witness: CleanupStale has just removed one of two switches and the
\* other one is still in both maps
C40_Witness ==
    /\ lastOp.name = "CleanupStale"
    /\ lastOp.ret = 1
    /\ Cardinality(DataKeys) = 1
    /\ Cardinality(LastUpdatedKeys) = 1

=============================================================================
